---------------------------- MODULE Spec2Model ----------------------------
(***************************************************************************)
(* A model of machq: the circuit builder (machq/types/_circuit_.py), the   *)
(* noise profiles (machq/noise) and the rotated planar codes, plain and    *)
(* measurement-gadget (machq/codes).                                       *)
(*                                                                         *)
(* Conventions.                                                            *)
(*  - Coordinates are stored doubled: Qubit(x, y) is <<2x, 2y>>, so that   *)
(*    the gadget's flag offset Qubit(0.5, 0.5) is <<1, 1>> and every       *)
(*    comparison and sum of coordinates stays in the integers.             *)
(*  - Noise parameters are per-mille integers (p = 0.1 is 100); the float  *)
(*    division p / 10 is the integer division of a multiple of 10.         *)
(*  - Python lists are sequences; list index k (0-based) is position k+1.  *)
(*  - stim.Circuit is the ordered instruction log: append adds one entry   *)
(*    [name, targets, arg] at the end.  Qubit indices are naturals.        *)
(***************************************************************************)
EXTENDS Integers, Sequences, FiniteSets, TLC

VARIABLES
    circuit,        \* Circuit.circuit: the instruction log
    idling_qubits,  \* Circuit.idling_qubits: dict index -> 0/1, in insertion order
    valid_qubits,   \* Circuit.valid_qubits: the number of registered qubits
    noise_profile,  \* Circuit.noise_profile
    raised,         \* the exception the last call raised, or "none"
    call,           \* the last call made on the builder or the code instance
    nops,           \* number of calls made so far
    code,           \* the code instance's fields (variant "none": a bare Circuit)
    pc,             \* position in logical_z_memory / logical_x_memory
    memory,         \* "z": logical_z_memory runs, "x": logical_x_memory
    rounds,         \* the rounds argument of the memory experiment
    round_r         \* the syndrome rounds run so far: the next value of the loop variable _r

vars == <<circuit, idling_qubits, valid_qubits, noise_profile, raised, call,
          nops, code, pc, memory, rounds, round_r>>

(***************************************************************************)
(* Bounds of the model.                                                    *)
(***************************************************************************)
MaxQubits == 2      \* a bare Circuit registers 0..MaxQubits qubits
MaxOps == 3         \* calls made on a bare Circuit
MaxDist == 3        \* x_distance, z_distance range over 1..MaxDist
MaxRounds == 3      \* rounds ranges over 0..MaxRounds
MaxCalls == 3       \* calls made in the life of a Circuit after its first add_qubits
MaxReuseDist == 2   \* distances of a code instance that is cleaned and reused
MaxReuses == 1      \* times one code instance is cleaned and reused
NoiseMargin == 500  \* noise parameters range from this below 0 to this above 1

(***************************************************************************)
(* Python helpers.                                                         *)
(***************************************************************************)
\* range(lo, hi, step), step > 0, as a sequence
PyRange(lo, hi, step) ==
    LET n == IF hi > lo THEN (hi - lo + step - 1) \div step ELSE 0
    IN  [i \in 1..n |-> lo + (i - 1) * step]

RECURSIVE Flatten(_)
\* concatenation of a sequence of sequences (a nested comprehension)
Flatten(ss) == IF ss = <<>> THEN <<>> ELSE Head(ss) \o Flatten(Tail(ss))

\* [x for x in s if P(x)]
Filter(s, P(_)) == SelectSeq(s, P)

Range(s) == {s[i] : i \in 1..Len(s)}

RECURSIVE Count(_, _)
\* list.count: the number of positions of s holding x
Count(s, x) ==
    IF s = <<>> THEN 0 ELSE (IF Head(s) = x THEN 1 ELSE 0) + Count(Tail(s), x)

RECURSIVE SumSeq(_)
SumSeq(s) == IF s = <<>> THEN 0 ELSE Head(s) + SumSeq(Tail(s))

(***************************************************************************)
(* machq/noise: the channels and the profiles.                             *)
(***************************************************************************)
Depolarize1(p) == <<"DEPOLARIZE1", p>>
Depolarize2(p) == <<"DEPOLARIZE2", p>>
XError(p) == <<"X_ERROR", p>>

DepolarizingNoise(p) ==
    [ name |-> "depolarizing_noise",
      single_qubit_gate_noise |-> Depolarize1(p),
      two_qubit_gate_noise |-> Depolarize2(p),
      measurement_flip_prob |-> p,
      reset_noise |-> p,
      idle_noise |-> Depolarize1(p) ]

\* the mutant of CircuitLevelNoise: the two-qubit gate noise scaled as well
CircuitLevelNoise_all_scaled(p) ==
    [ DepolarizingNoise(p \div 10) EXCEPT !.name = "circuit_level_noise" ]

CircuitLevelNoise(p) ==
    [ DepolarizingNoise(p) EXCEPT
        !.name = "circuit_level_noise",
        !.single_qubit_gate_noise = Depolarize1(p \div 10),
        !.measurement_flip_prob = p \div 10,
        !.reset_noise = p \div 10,
        !.idle_noise = Depolarize1(p \div 10) ]

\* probabilities are counted in thousandths: this is p = 1
PerMille == 1000

\* the mutant of _check_valid_noise: the two ends of the interval refused
_check_valid_noise_open(p) == 0 < p /\ p < PerMille

\* NoiseProfile._check_valid_noise: it returns (TRUE) or raises (FALSE)
_check_valid_noise(p) == 0 <= p /\ p <= PerMille

\* an object none of whose attributes is set
NoAttributes == <<>>

\* DepolarizingNoise(p), the constructor call: the check comes before the
\* first assignment to self
DepolarizingNoise__init__(p) ==
    IF ~_check_valid_noise(p)
    THEN [raised |-> "ValueError", self |-> NoAttributes]
    ELSE [raised |-> "none", self |-> DepolarizingNoise(p)]

\* CircuitLevelNoise(p), the constructor call: super().__init__(p=p) first
CircuitLevelNoise__init__(p) ==
    LET base == DepolarizingNoise__init__(p)
    IN  IF base.raised # "none" THEN base
        ELSE [raised |-> "none", self |-> CircuitLevelNoise(p)]

\* the Python values of the attributes of a profile: a float, or the tuple a
\* NoiseChannels method returns
PyFloat(p) == [type |-> "float", value |-> <<p>>]
PyTuple(t) == [type |-> "tuple", value |-> t]
attributes(profile) ==
    [ single_qubit_gate_noise |-> PyTuple(profile.single_qubit_gate_noise),
      two_qubit_gate_noise |-> PyTuple(profile.two_qubit_gate_noise),
      measurement_flip_prob |-> PyFloat(profile.measurement_flip_prob),
      reset_noise |-> PyFloat(profile.reset_noise),
      idle_noise |-> PyTuple(profile.idle_noise) ]

\* the profiles the model builds circuits with (p = 0 and p = 0.1)
NoiseProfiles == {DepolarizingNoise(0), CircuitLevelNoise(100)}

(***************************************************************************)
(* The instruction log.                                                    *)
(***************************************************************************)
Instr(name, targets, arg) == [name |-> name, targets |-> targets, arg |-> arg]

NoArg == <<>>

\* instructions whose targets are qubit indices (the others target records)
QubitInstr == {"QUBIT_COORDS", "H", "CX", "R", "M",
               "DEPOLARIZE1", "DEPOLARIZE2", "X_ERROR"}

\* stim.Circuit.num_qubits: one more than the largest qubit index in the log
num_qubits(log) ==
    LET used == UNION {Range(log[i].targets) :
                         i \in {j \in 1..Len(log) : log[j].name \in QubitInstr}}
    IN  IF used = {} THEN 0 ELSE (CHOOSE m \in used : \A u \in used : u <= m) + 1

(***************************************************************************)
(* Circuit.idling_qubits, a dict: a sequence of <<key, value>> in          *)
(* insertion order.                                                        *)
(***************************************************************************)
DictKeys(d) == {d[i][1] : i \in 1..Len(d)}

DictGet(d, k) == d[CHOOSE i \in 1..Len(d) : d[i][1] = k][2]

\* d[k] = v
DictSet(d, k, v) ==
    IF k \in DictKeys(d)
    THEN [i \in 1..Len(d) |-> IF d[i][1] = k THEN <<k, v>> ELSE d[i]]
    ELSE Append(d, <<k, v>>)

\* for k in ks: d[k] = v  (the keys already present keep their place, the
\* new ones are added in the order of their first appearance in ks)
DictSetAll(d, ks, v) ==
    LET keys == DictKeys(d)
        given == Range(ks)
        IsNew(i) == ks[i] \notin keys /\ \A j \in 1..(i - 1) : ks[j] # ks[i]
        fresh == SelectSeq([i \in 1..Len(ks) |-> i], IsNew)
    IN  [i \in 1..Len(d) |-> IF d[i][1] \in given THEN <<d[i][1], v>> ELSE d[i]]
        \o [i \in 1..Len(fresh) |-> <<ks[fresh[i]], v>>]

(***************************************************************************)
(* The builder.  A builder state B is the record of the Circuit's fields   *)
(* plus `raised`; once a call has raised, the rest of the calling method   *)
(* is skipped (the exception propagates).                                  *)
(***************************************************************************)
NewCircuit(profile) ==
    [ circuit |-> <<>>, idling_qubits |-> <<>>, valid_qubits |-> 0,
      noise_profile |-> profile, raised |-> "none" ]

\* the mutant of CircuitAppend: the instruction is put at the head of the log
CircuitPrepend(B, name, targets, arg) ==
    [B EXCEPT !.circuit = <<Instr(name, targets, arg)>> \o @]

\* self.circuit.append(name, targets, arg)
CircuitAppend(B, name, targets, arg) ==
    [B EXCEPT !.circuit = Append(@, Instr(name, targets, arg))]

\* the mutant of MarkTouched: only the first qubit of the list is marked
MarkTouched_first_only(B, qubits) ==
    [B EXCEPT !.idling_qubits =
        DictSetAll(@, IF qubits = <<>> THEN <<>> ELSE <<qubits[1]>>, 1)]

\* for qubit in qubits: self.idling_qubits[qubit] = 1
MarkTouched(B, qubits) ==
    [B EXCEPT !.idling_qubits = DictSetAll(@, qubits, 1)]

\* Circuit.add_qubits(qubit_coords=coords)
add_qubits(B, coords) ==
    LET n == Len(coords)
        decl == [i \in 1..n |-> Instr("QUBIT_COORDS", <<i - 1>>, coords[i])]
    IN  [B EXCEPT !.valid_qubits = n,
                  !.circuit = @ \o decl,
                  !.idling_qubits = DictSetAll(@, [i \in 1..n |-> i - 1], 0)]

\* the mutant of _check_qubits_exist: only the first index checked
_check_qubits_exist_first_only(B, qubits) ==
    qubits = <<>> \/ qubits[1] < B.valid_qubits

\* Circuit._check_qubits_exist: TRUE when it returns, FALSE when it raises
_check_qubits_exist(B, qubits) ==
    \A i \in 1..Len(qubits) : qubits[i] < B.valid_qubits

\* the mutant of CX: the length of the list not checked
CX_any_length(B, qubits) ==
    IF B.raised # "none" THEN B
    ELSE IF ~_check_qubits_exist(B, qubits) THEN [B EXCEPT !.raised = "ValueError"]
    ELSE LET noise == B.noise_profile.two_qubit_gate_noise
             B1 == CircuitAppend(B, "CX", qubits, NoArg)
             B2 == CircuitAppend(B1, noise[1], qubits, noise[2])
         IN  MarkTouched(B2, qubits)

\* Circuit.CX
CX(B, qubits) ==
    IF B.raised # "none" THEN B
    ELSE IF Len(qubits) % 2 # 0 THEN [B EXCEPT !.raised = "ValueError"]
    ELSE IF ~_check_qubits_exist(B, qubits) THEN [B EXCEPT !.raised = "ValueError"]
    ELSE LET noise == B.noise_profile.two_qubit_gate_noise
             B1 == CircuitAppend(B, "CX", qubits, NoArg)
             B2 == CircuitAppend(B1, noise[1], qubits, noise[2])
         IN  MarkTouched(B2, qubits)

\* Circuit.H
H(B, qubits) ==
    IF B.raised # "none" THEN B
    ELSE IF ~_check_qubits_exist(B, qubits) THEN [B EXCEPT !.raised = "ValueError"]
    ELSE LET noise == B.noise_profile.single_qubit_gate_noise
             B1 == CircuitAppend(B, "H", qubits, NoArg)
             B2 == CircuitAppend(B1, noise[1], qubits, noise[2])
         IN  MarkTouched(B2, qubits)

\* the mutant of time_step: idle noise on every tracked qubit, touched or not
time_step_all_idle(B, idle_noise) ==
    IF B.raised # "none" THEN B
    ELSE LET d == B.idling_qubits
             B1 == IF d # <<>>
                   THEN CircuitAppend(B, idle_noise[1],
                                      [i \in 1..Len(d) |-> d[i][1]], idle_noise[2])
                   ELSE B
             B2 == CircuitAppend(B1, "TICK", <<>>, NoArg)
         IN  [B2 EXCEPT !.idling_qubits = [i \in 1..Len(d) |-> <<d[i][1], 0>>]]

\* Circuit.time_step
time_step(B, idle_noise) ==
    IF B.raised # "none" THEN B
    ELSE LET d == B.idling_qubits
             IsIdle(e) == e[2] = 0
             idle == Filter(d, IsIdle)
             B1 == IF idle # <<>>
                   THEN CircuitAppend(B, idle_noise[1],
                                      [i \in 1..Len(idle) |-> idle[i][1]],
                                      idle_noise[2])
                   ELSE B
             B2 == CircuitAppend(B1, "TICK", <<>>, NoArg)
         IN  [B2 EXCEPT !.idling_qubits = [i \in 1..Len(d) |-> <<d[i][1], 0>>]]

\* Circuit.reset_qubits(qubits), reset_channel = NoiseChannels.XError
reset_qubits(B, qubits) ==
    IF B.raised # "none" THEN B
    ELSE LET noise == XError(B.noise_profile.reset_noise)
             B1 == CircuitAppend(B, "R", qubits, NoArg)
             B2 == CircuitAppend(B1, noise[1], qubits, noise[2])
         IN  MarkTouched(B2, qubits)

\* Circuit.reset_qubits(): qubits = range(self.circuit.num_qubits)
reset_all_qubits(B) ==
    reset_qubits(B, PyRange(0, num_qubits(B.circuit), 1))

\* Circuit.measure_qubits
measure_qubits(B, qubits) ==
    IF B.raised # "none" THEN B
    ELSE LET B1 == CircuitAppend(B, "M", qubits, B.noise_profile.measurement_flip_prob)
         IN  MarkTouched(B1, qubits)

\* the mutant of detectors: all the lookbacks in one DETECTOR instruction
detectors_single_instruction(B, lookbacks_and_args) ==
    IF B.raised # "none" \/ lookbacks_and_args = <<>> THEN B
    ELSE LET n == Len(lookbacks_and_args)
         IN  CircuitAppend(B, "DETECTOR",
                           Flatten([i \in 1..n |-> lookbacks_and_args[i][1]]),
                           lookbacks_and_args[1][2])

\* the mutant of detectors: the pairs before the first incomplete one are
\* appended before the error is raised
detectors_until_incomplete(B, lookbacks_and_args) ==
    IF B.raised # "none" THEN B
    ELSE LET n == Len(lookbacks_and_args)
             short == {i \in 1..n : Len(lookbacks_and_args[i]) < 2}
             upto == IF short = {} THEN n
                     ELSE (CHOOSE i \in short : \A j \in short : i <= j) - 1
             decl == [i \in 1..upto |-> Instr("DETECTOR", lookbacks_and_args[i][1],
                                              lookbacks_and_args[i][2])]
         IN  [B EXCEPT !.circuit = @ \o decl,
                       !.raised = IF short = {} THEN "none" ELSE "IndexError"]

\* Circuit.detectors: one DETECTOR per (lookbacks, arg) pair.  The two
\* comprehensions x[0] and x[1] raise IndexError on an element that lacks a
\* component, before anything is appended; the two lists they build have the
\* same length, that of lookbacks_and_args.
detectors(B, lookbacks_and_args) ==
    IF B.raised # "none" THEN B
    ELSE IF \E i \in 1..Len(lookbacks_and_args) : Len(lookbacks_and_args[i]) < 2
    THEN [B EXCEPT !.raised = "IndexError"]
    ELSE LET n == Len(lookbacks_and_args)
             lookback_indices == [i \in 1..n |-> lookbacks_and_args[i][1]]
             arguments == [i \in 1..n |-> lookbacks_and_args[i][2]]
             decl == [i \in 1..n |-> Instr("DETECTOR", lookback_indices[i],
                                           arguments[i])]
         IN  IF Len(arguments) # Len(lookback_indices)
             THEN [B EXCEPT !.raised = "ValueError"]
             ELSE [B EXCEPT !.circuit = @ \o decl]

\* the mutant of clear: the coordinate declarations are kept in the log
clear_keeps_declarations(B) ==
    LET IsDecl(ins) == ins.name = "QUBIT_COORDS"
    IN  IF B.raised # "none" THEN B
        ELSE [B EXCEPT !.circuit = SelectSeq(@, IsDecl)]

\* Circuit.clear: self.circuit.clear()
clear(B) ==
    IF B.raised # "none" THEN B ELSE [B EXCEPT !.circuit = <<>>]

\* Circuit.add_logical
add_logical(B, indices) ==
    IF B.raised # "none" THEN B
    ELSE CircuitAppend(B, "OBSERVABLE_INCLUDE", indices, 0)

(***************************************************************************)
(* The builder as a state machine: calls on a bare Circuit.                *)
(***************************************************************************)
\* the Circuit held in the variables, before a call
Cur ==
    [ circuit |-> circuit, idling_qubits |-> idling_qubits,
      valid_qubits |-> valid_qubits, noise_profile |-> noise_profile,
      raised |-> "none" ]

\* the Circuit a call leaves behind
Becomes(B) ==
    /\ circuit' = B.circuit
    /\ idling_qubits' = B.idling_qubits
    /\ valid_qubits' = B.valid_qubits
    /\ noise_profile' = B.noise_profile
    /\ raised' = B.raised

NoCode == [variant |-> "none"]

Call(op, qubits) == [op |-> op, qubits |-> qubits]

\* the index arguments tried: the indices 0..MaxQubits, of which MaxQubits is
\* never registered, alone, as a pair of neighbours or as three in a row
Indices == 0..MaxQubits
TargetLists ==
    {<<a>> : a \in Indices}
    \cup {pr \in Indices \X Indices : pr[2] = pr[1] + 1}
    \cup {<<a, a + 1, a + 2>> : a \in 0..(MaxQubits - 2)}

\* the profile a bare Circuit is built with (p = 0.1)
BuilderProfiles == {CircuitLevelNoise(100)}

\* Circuit(noise_profile) followed by add_qubits(n)
InitBuilder ==
    \E n \in 0..MaxQubits, profile \in BuilderProfiles :
        LET B == add_qubits(NewCircuit(profile), PyRange(0, n, 1))
        IN  /\ circuit = B.circuit
            /\ idling_qubits = B.idling_qubits
            /\ valid_qubits = B.valid_qubits
            /\ noise_profile = B.noise_profile
            /\ raised = "none"
            /\ call = Call("add_qubits", <<>>)
            /\ nops = 0
            /\ code = NoCode
            /\ pc = "builder"
            /\ memory = "none"
            /\ rounds = 0
            /\ round_r = 0

BuilderCall(op, qubits, B) ==
    /\ nops < MaxOps
    /\ nops' = nops + 1
    /\ call' = Call(op, qubits)
    /\ Becomes(B)
    /\ UNCHANGED <<code, pc, memory, rounds, round_r>>

DoH == \E qubits \in TargetLists : BuilderCall("H", qubits, H(Cur, qubits))

DoCX == \E qubits \in TargetLists : BuilderCall("CX", qubits, CX(Cur, qubits))

DoReset ==
    \E qubits \in TargetLists :
        BuilderCall("reset_qubits", qubits, reset_qubits(Cur, qubits))

DoResetAll == BuilderCall("reset_qubits", <<>>, reset_all_qubits(Cur))

DoMeasure ==
    \E qubits \in TargetLists :
        BuilderCall("measure_qubits", qubits, measure_qubits(Cur, qubits))

DoTimeStep ==
    BuilderCall("time_step", <<>>, time_step(Cur, noise_profile.idle_noise))

\* the lists of (lookbacks, arg) given to detectors: complete pairs, and
\* lists in which an element lacks its arg (a lookback group without label)
DetectorLists ==
    LET pair(t) == << <<-1>>, <<0, 0, t>> >>
        alone == << <<-1>> >>
    IN  { <<pair(0)>>, <<pair(0), pair(1)>>, <<alone>>, <<pair(0), alone>>,
          <<alone, pair(1)>> }

DoDetectors ==
    \E l \in DetectorLists : BuilderCall("detectors", l, detectors(Cur, l))

DoClear == BuilderCall("clear", <<>>, clear(Cur))

NextBuilder == DoH \/ DoCX \/ DoReset \/ DoResetAll \/ DoMeasure \/ DoTimeStep

Spec == InitBuilder /\ [][NextBuilder]_vars

\* the builder's bookkeeping calls: detectors and clear, between gates,
\* measurements and steps
NextBookkeeping ==
    \/ DoDetectors
    \/ DoClear
    \/ DoH
    \/ DoCX
    \/ DoMeasure
    \/ DoTimeStep

SpecBookkeeping == InitBuilder /\ [][NextBookkeeping]_vars

\* a call in the life of a Circuit that is set up, used, cleared and set up
\* again: at most MaxCalls calls after the first add_qubits
LifeCallOf(c, B) ==
    /\ pc = "builder"
    /\ nops < MaxCalls
    /\ nops' = nops + 1
    /\ call' = c
    /\ Becomes(B)
    /\ UNCHANGED <<code, pc, memory, rounds, round_r>>

LifeCall(op, qubits, B) == LifeCallOf(Call(op, qubits), B)

\* the index arguments tried in the life of a Circuit: the first index, the
\* first two, and the index MaxQubits, which is never registered
LifeTargets == {<<0>>, <<0, 1>>, <<MaxQubits>>}

\* the qubit_coords that add_qubits(num_qubits) works with when no coordinates
\* are given: range(num_qubits)
IndexCoordinates(n) == PyRange(0, n, 1)

\* the coordinates given to add_qubits(num_qubits, qubit_coords)
GivenCoordinates(n) == [i \in 1..n |-> <<i, 1>>]

\* the lookbacks given to add_logical
LogicalIndices == {<<-1>>, <<-1, -2>>}

\* add_qubits(n) and add_qubits(n, qubit_coords); the call records the
\* qubit_coords the method works with and whether they were given
CallAddQubits ==
    \/ \E n \in 0..MaxQubits :
          LifeCallOf([op |-> "add_qubits", qubits |-> IndexCoordinates(n),
                      given |-> FALSE],
                     add_qubits(Cur, IndexCoordinates(n)))
    \/ \E n \in 1..MaxQubits :
          LifeCallOf([op |-> "add_qubits", qubits |-> GivenCoordinates(n),
                      given |-> TRUE],
                     add_qubits(Cur, GivenCoordinates(n)))

CallClear == LifeCall("clear", <<>>, clear(Cur))

CallH == \E qubits \in LifeTargets : LifeCall("H", qubits, H(Cur, qubits))

CallCX == \E qubits \in LifeTargets : LifeCall("CX", qubits, CX(Cur, qubits))

CallResetQubits ==
    \/ \E qubits \in LifeTargets :
          LifeCall("reset_qubits", qubits, reset_qubits(Cur, qubits))
    \/ LifeCall("reset_qubits", <<>>, reset_all_qubits(Cur))

CallMeasureQubits ==
    \E qubits \in LifeTargets :
        LifeCall("measure_qubits", qubits, measure_qubits(Cur, qubits))

CallTimeStep ==
    LifeCall("time_step", <<>>, time_step(Cur, noise_profile.idle_noise))

CallDetectors ==
    \E l \in DetectorLists : LifeCall("detectors", l, detectors(Cur, l))

CallAddLogical ==
    \E indices \in LogicalIndices :
        LifeCall("add_logical", indices, add_logical(Cur, indices))

NextLife ==
    \/ CallAddQubits
    \/ CallClear
    \/ CallH
    \/ CallCX
    \/ CallResetQubits
    \/ CallMeasureQubits
    \/ CallTimeStep
    \/ CallDetectors
    \/ CallAddLogical

SpecLife == InitBuilder /\ [][NextLife]_vars

\* the noise parameters tried: from NoiseMargin below 0 to NoiseMargin above 1
NoiseParameters == (-NoiseMargin)..(PerMille + NoiseMargin)

\* before a noise profile is constructed
InitNoise ==
    /\ circuit = <<>>
    /\ idling_qubits = <<>>
    /\ valid_qubits = 0
    /\ noise_profile = NoAttributes
    /\ raised = "none"
    /\ call = Call("none", <<>>)
    /\ nops = 0
    /\ code = NoCode
    /\ pc = "noise"
    /\ memory = "none"
    /\ rounds = 0
    /\ round_r = 0

ConstructProfile(op, made, p) ==
    /\ pc = "noise"
    /\ pc' = "constructed"
    /\ call' = Call(op, <<p>>)
    /\ noise_profile' = made.self
    /\ raised' = made.raised
    /\ UNCHANGED <<circuit, idling_qubits, valid_qubits, nops, code, memory,
                   rounds, round_r>>

NewDepolarizingNoise ==
    \E p \in NoiseParameters :
        ConstructProfile("DepolarizingNoise", DepolarizingNoise__init__(p), p)

NewCircuitLevelNoise ==
    \E p \in NoiseParameters :
        ConstructProfile("CircuitLevelNoise", CircuitLevelNoise__init__(p), p)

NextNoise == NewDepolarizingNoise \/ NewCircuitLevelNoise

SpecNoise == InitNoise /\ [][NextNoise]_vars

(***************************************************************************)
(* machq/codes: the layout of the rotated planar code, plain and gadget.   *)
(***************************************************************************)
\* Qubit(x, y), stored doubled
Qubit(x, y) == <<2 * x, 2 * y>>

\* Qubit.__add__
QubitAdd(q, delta) == <<q[1] + delta[1], q[2] + delta[2]>>

\* q in qubits
InList(q, qubits) == \E i \in 1..Len(qubits) : qubits[i] = q

\* RotatedPlanarCode._define_data_
_define_data_(x_dim, y_dim) ==
    LET ys == PyRange(1, y_dim, 2)
        xs == PyRange(1, x_dim, 2)
    IN  Flatten([i \in 1..Len(ys) |-> [j \in 1..Len(xs) |-> Qubit(xs[j], ys[i])]])

\* RotatedPlanarCode._define_auxiliary_: the X-type auxiliaries
_define_x_auxiliary_(x_distance, x_dim, y_dim) ==
    LET xs == PyRange(2, x_dim - 1, 2)
        column(i) ==
            LET offset == i - 1
                ylow == 0 + 2 * (offset % 2)
                yhigh == y_dim + (1 - (x_distance % 2))
                ys == PyRange(ylow, yhigh, 4)
            IN  [j \in 1..Len(ys) |-> Qubit(xs[i], ys[j])]
    IN  Flatten([i \in 1..Len(xs) |-> column(i)])

\* the mutant of _define_z_auxiliary_: the row offset starts at 0 as the
\* column offset of the X-type auxiliaries does
_define_z_auxiliary_offset_zero(x_dim, y_dim) ==
    LET ys == PyRange(2, y_dim - 1, 2)
        row(i) ==
            LET offset == i - 1
                xlow == 0 + 2 * (offset % 2)
                xhigh == x_dim
                xs == PyRange(xlow, xhigh, 4)
            IN  [j \in 1..Len(xs) |-> Qubit(xs[j], ys[i])]
    IN  Flatten([i \in 1..Len(ys) |-> row(i)])

\* RotatedPlanarCode._define_auxiliary_: the Z-type auxiliaries
_define_z_auxiliary_(x_dim, y_dim) ==
    LET ys == PyRange(2, y_dim - 1, 2)
        row(i) ==
            LET offset == 1 + (i - 1)
                xlow == 0 + 2 * (offset % 2)
                xhigh == x_dim
                xs == PyRange(xlow, xhigh, 4)
            IN  [j \in 1..Len(xs) |-> Qubit(xs[j], ys[i])]
    IN  Flatten([i \in 1..Len(ys) |-> row(i)])

\* the mutant of _define_flags_: the flags are listed from the last auxiliary
\* to the first
_define_flags_reversed(auxiliary) ==
    [i \in 1..Len(auxiliary) |->
        QubitAdd(<<1, 1>>, auxiliary[Len(auxiliary) + 1 - i])]

\* RotatedPlanarCodeGadget._define_flags_: Qubit(0.5, 0.5) + qubit
_define_flags_(auxiliary) ==
    [i \in 1..Len(auxiliary) |-> QubitAdd(<<1, 1>>, auxiliary[i])]

\* the mutant of KeyLess: the key is [x[0], x[1]]
KeyLess_x_first(a, b) == a[1] < b[1] \/ (a[1] = b[1] /\ a[2] < b[2])

\* key=lambda x: [x[1], x[0]]: a sorts strictly before b
KeyLess(a, b) == a[2] < b[2] \/ (a[2] = b[2] /\ a[1] < b[1])

RECURSIVE InsertSorted(_, _)
InsertSorted(s, q) ==
    IF s = <<>> THEN <<q>>
    ELSE IF KeyLess(q, Head(s)) THEN <<q>> \o s
    ELSE <<Head(s)>> \o InsertSorted(Tail(s), q)

RECURSIVE SortInto(_, _)
SortInto(acc, s) ==
    IF s = <<>> THEN acc ELSE SortInto(InsertSorted(acc, Head(s)), Tail(s))

\* sorted(qubits, key=lambda x: [x[1], x[0]]): stable, by y then x
sorted(qubits) == SortInto(<<>>, qubits)

\* {qubit: idx for idx, qubit in enumerate(qubit_coords)}
qubit_map_of(qubit_coords) ==
    [q \in Range(qubit_coords) |->
        (CHOOSE i \in 1..Len(qubit_coords) :
            /\ qubit_coords[i] = q
            /\ \A j \in 1..Len(qubit_coords) : qubit_coords[j] = q => j <= i) - 1]

\* RotatedPlanarCode.__init__ / RotatedPlanarCodeGadget.__init__: the fields
NewCode(variant, x_distance, z_distance) ==
    LET x_dim == 2 * z_distance + 1
        y_dim == 2 * x_distance + 1
        data == _define_data_(x_dim, y_dim)
        x_aux == _define_x_auxiliary_(x_distance, x_dim, y_dim)
        z_aux == _define_z_auxiliary_(x_dim, y_dim)
        x_flags == IF variant = "gadget" THEN _define_flags_(x_aux) ELSE <<>>
        z_flags == IF variant = "gadget" THEN _define_flags_(z_aux) ELSE <<>>
        coords == sorted(data \o (x_aux \o z_aux) \o (x_flags \o z_flags))
    IN  [ variant |-> variant,
          x_distance |-> x_distance,
          z_distance |-> z_distance,
          x_dim |-> x_dim,
          y_dim |-> y_dim,
          data_qubits |-> data,
          x_auxiliary_qubits |-> x_aux,
          z_auxiliary_qubits |-> z_aux,
          auxiliary_qubits |-> x_aux \o z_aux,
          x_flags |-> x_flags,
          z_flags |-> z_flags,
          flag_qubits |-> x_flags \o z_flags,
          qubit_coords |-> coords,
          qubit_map |-> qubit_map_of(coords),
          plaquette_corners |-> <<Qubit(1, 1), Qubit(1, -1), Qubit(-1, 1), Qubit(-1, -1)>> ]

\* [self.qubit_map[q] for q in qubits]
Mapped(c, qubits) == [i \in 1..Len(qubits) |-> c.qubit_map[qubits[i]]]

\* the mutant of _neighbouring_data_qubits: the corners are not tested for
\* being data qubits
_neighbouring_data_qubits_unfiltered(c, auxiliary_qubit) ==
    [i \in 1..Len(c.plaquette_corners) |->
        QubitAdd(auxiliary_qubit, c.plaquette_corners[i])]

\* _neighbouring_data_qubits: the generator's elements (it raises ValueError
\* for a qubit that is not an auxiliary, see NotAuxiliary)
_neighbouring_data_qubits(c, auxiliary_qubit) ==
    LET near(delta) == InList(QubitAdd(auxiliary_qubit, delta), c.data_qubits)
        corners == Filter(c.plaquette_corners, near)
    IN  [i \in 1..Len(corners) |-> QubitAdd(auxiliary_qubit, corners[i])]

\* the mutant of NotAuxiliary: only a qubit outside the layout is refused
NotInLayout(c, qubit) == ~InList(qubit, c.qubit_coords)

\* _neighbouring_data_qubits raises for this qubit
NotAuxiliary(c, qubit) == ~InList(qubit, c.auxiliary_qubits)

\* the default schedules of _measure_syndromes_
\* the mutant of x_schedule: the upper left corner visited twice, the lower
\* left never
x_schedule_corner_twice == <<Qubit(-1, 1), Qubit(1, 1), Qubit(-1, 1), Qubit(1, -1)>>

x_schedule == <<Qubit(-1, 1), Qubit(1, 1), Qubit(-1, -1), Qubit(1, -1)>>

\* the mutant of z_schedule: the upper two corners taken right to left, against
\* the X-type auxiliaries' left to right
z_schedule_right_to_left == <<Qubit(1, 1), Qubit(-1, 1), Qubit(-1, -1), Qubit(1, -1)>>

z_schedule == <<Qubit(-1, 1), Qubit(-1, -1), Qubit(1, 1), Qubit(1, -1)>>

\* QuantumErrorCorrectionCode.time_step
code_time_step(B) == time_step(B, B.noise_profile.idle_noise)

(***************************************************************************)
(* RotatedPlanarCode: the plain code's circuits.                           *)
(***************************************************************************)
\* the mutant of cnot_qubits: the Z-type auxiliary as the control of its pair
cnot_qubits_auxiliary_first(c, k) ==
    LET pairs(qubit) ==
            (IF InList(qubit, c.x_auxiliary_qubits)
                /\ InList(QubitAdd(qubit, x_schedule[k]), c.data_qubits)
             THEN <<qubit, QubitAdd(qubit, x_schedule[k])>> ELSE <<>>)
            \o
            (IF InList(qubit, c.z_auxiliary_qubits)
                /\ InList(QubitAdd(qubit, z_schedule[k]), c.data_qubits)
             THEN <<qubit, QubitAdd(qubit, z_schedule[k])>> ELSE <<>>)
    IN  Flatten([i \in 1..Len(c.auxiliary_qubits) |-> pairs(c.auxiliary_qubits[i])])

\* the cnot_qubits of schedule slot k (1-based) of _measure_syndromes_
cnot_qubits(c, k) ==
    LET pairs(qubit) ==
            (IF InList(qubit, c.x_auxiliary_qubits)
                /\ InList(QubitAdd(qubit, x_schedule[k]), c.data_qubits)
             THEN <<qubit, QubitAdd(qubit, x_schedule[k])>> ELSE <<>>)
            \o
            (IF InList(qubit, c.z_auxiliary_qubits)
                /\ InList(QubitAdd(qubit, z_schedule[k]), c.data_qubits)
             THEN <<QubitAdd(qubit, z_schedule[k]), qubit>> ELSE <<>>)
    IN  Flatten([i \in 1..Len(c.auxiliary_qubits) |-> pairs(c.auxiliary_qubits[i])])

RECURSIVE cnot_layers(_, _, _)
\* the loop over the schedule slots k..4 of _measure_syndromes_
cnot_layers(B, c, k) ==
    IF k > Len(x_schedule) THEN B
    ELSE cnot_layers(code_time_step(CX(B, Mapped(c, cnot_qubits(c, k)))), c, k + 1)

\* the mutant of _measure_syndromes_: the X-type auxiliaries not rotated back
\* before they are measured
_measure_syndromes_one_hadamard(B, c) ==
    LET B1 == code_time_step(H(B, Mapped(c, c.x_auxiliary_qubits)))
        B2 == cnot_layers(B1, c, 1)
        B4 == code_time_step(measure_qubits(B2, Mapped(c, c.auxiliary_qubits)))
    IN  reset_qubits(B4, Mapped(c, c.auxiliary_qubits))

\* the mutant of _measure_syndromes_: the auxiliaries reset before they are
\* measured
_measure_syndromes_reset_first(B, c) ==
    LET B1 == code_time_step(H(B, Mapped(c, c.x_auxiliary_qubits)))
        B2 == cnot_layers(B1, c, 1)
        B3 == code_time_step(H(B2, Mapped(c, c.x_auxiliary_qubits)))
        B4 == code_time_step(reset_qubits(B3, Mapped(c, c.auxiliary_qubits)))
    IN  measure_qubits(B4, Mapped(c, c.auxiliary_qubits))

\* the mutant of _measure_syndromes_: the Z-type auxiliaries measured before
\* the X-type ones
_measure_syndromes_z_first(B, c) ==
    LET B1 == code_time_step(H(B, Mapped(c, c.x_auxiliary_qubits)))
        B2 == cnot_layers(B1, c, 1)
        B3 == code_time_step(H(B2, Mapped(c, c.x_auxiliary_qubits)))
        B4 == code_time_step(measure_qubits(B3,
                  Mapped(c, c.z_auxiliary_qubits \o c.x_auxiliary_qubits)))
    IN  reset_qubits(B4, Mapped(c, c.auxiliary_qubits))

\* RotatedPlanarCode._measure_syndromes_
_measure_syndromes_(B, c) ==
    LET B1 == code_time_step(H(B, Mapped(c, c.x_auxiliary_qubits)))
        B2 == cnot_layers(B1, c, 1)
        B3 == code_time_step(H(B2, Mapped(c, c.x_auxiliary_qubits)))
        B4 == code_time_step(measure_qubits(B3, Mapped(c, c.auxiliary_qubits)))
    IN  reset_qubits(B4, Mapped(c, c.auxiliary_qubits))

\* the label (qubit.x, qubit.y, t) of a detector
Label(qubit, t) == <<qubit[1], qubit[2], t>>

\* the mutant of encode_logical_zero: the lookback taken over all the
\* auxiliaries, as encode_logical_plus does
encode_logical_zero_all_aux(B, c) ==
    LET B1 == _measure_syndromes_(code_time_step(reset_all_qubits(B)), c)
        max_lookback == Len(c.auxiliary_qubits)
        lookback_and_arguments ==
            [k \in 1..Len(c.z_auxiliary_qubits) |->
                << <<-max_lookback + (k - 1)>>, Label(c.z_auxiliary_qubits[k], 0) >>]
    IN  detectors(B1, lookback_and_arguments)

\* RotatedPlanarCode.encode_logical_zero
encode_logical_zero(B, c) ==
    LET B1 == _measure_syndromes_(code_time_step(reset_all_qubits(B)), c)
        max_lookback == Len(c.z_auxiliary_qubits)
        lookback_and_arguments ==
            [k \in 1..Len(c.z_auxiliary_qubits) |->
                << <<-max_lookback + (k - 1)>>, Label(c.z_auxiliary_qubits[k], 0) >>]
    IN  detectors(B1, lookback_and_arguments)

\* RotatedPlanarCode.encode_logical_plus
encode_logical_plus(B, c) ==
    LET B1 == H(reset_all_qubits(B), Mapped(c, c.data_qubits))
        B2 == _measure_syndromes_(B1, c)
        max_lookback == Len(c.auxiliary_qubits)
        lookback_and_arguments ==
            [k \in 1..Len(c.x_auxiliary_qubits) |->
                << <<-max_lookback + (k - 1)>>, Label(c.x_auxiliary_qubits[k], 0) >>]
    IN  detectors(B2, lookback_and_arguments)

\* the mutant of syndrome_round_lookbacks: the previous round one record off
syndrome_round_lookbacks_off_by_one(c, idx) ==
    LET max_lookback == Len(c.auxiliary_qubits)
    IN  <<-max_lookback + idx, -2 * max_lookback + idx + 1>>

\* RotatedPlanarCode.syndrome_extraction: the lookbacks of auxiliary idx
syndrome_round_lookbacks(c, idx) ==
    LET max_lookback == Len(c.auxiliary_qubits)
    IN  <<-max_lookback + idx, -2 * max_lookback + idx>>

\* RotatedPlanarCode.syndrome_extraction: the body of the loop, round _r
syndrome_extraction_round(B, c, _r) ==
    LET B1 == _measure_syndromes_(B, c)
        lookbacks_and_arguments ==
            [k \in 1..Len(c.auxiliary_qubits) |->
                << syndrome_round_lookbacks(c, k - 1), Label(c.auxiliary_qubits[k], _r) >>]
    IN  detectors(B1, lookbacks_and_arguments)

\* the data part of a closing detector: [-data_lookback + dq_idx for ... if
\* dq in self._neighbouring_data_qubits(auxiliary_qubit=aux)]
data_lookbacks(c, aux) ==
    LET data_lookback == Len(c.data_qubits)
        near == _neighbouring_data_qubits(c, aux)
        IsNear(dq_idx) == InList(c.data_qubits[dq_idx + 1], near)
        hits == Filter(PyRange(0, Len(c.data_qubits), 1), IsNear)
    IN  [i \in 1..Len(hits) |-> -data_lookback + hits[i]]

\* the closing detectors of the auxiliaries `aux`, the last one's record
\* max_lookback back, labelled with `distance`
closing_detectors(B, c, aux, max_lookback, distance) ==
    IF \E k \in 1..Len(aux) : NotAuxiliary(c, aux[k])
    THEN [B EXCEPT !.raised = "ValueError"]
    ELSE detectors(B, [k \in 1..Len(aux) |->
            << data_lookbacks(c, aux[k]) \o <<-max_lookback + (k - 1)>>,
               Label(aux[k], distance) >>])

\* the mutant of measure_data_qubits_for_z_memory: the auxiliary lookback
\* taken over all auxiliaries, as the X memory does
measure_data_qubits_for_z_memory_all_aux(B, c) ==
    LET B1 == measure_qubits(B, Mapped(c, c.data_qubits))
        max_lookback == Len(c.data_qubits) + Len(c.auxiliary_qubits)
    IN  closing_detectors(B1, c, c.z_auxiliary_qubits, max_lookback, c.z_distance)

\* RotatedPlanarCode.measure_data_qubits_for_z_memory
measure_data_qubits_for_z_memory(B, c) ==
    LET B1 == measure_qubits(B, Mapped(c, c.data_qubits))
        max_lookback == Len(c.data_qubits) + Len(c.z_auxiliary_qubits)
    IN  closing_detectors(B1, c, c.z_auxiliary_qubits, max_lookback, c.z_distance)

\* RotatedPlanarCode.measure_data_qubits_for_x_memory
measure_data_qubits_for_x_memory(B, c) ==
    LET B1 == code_time_step(H(B, Mapped(c, c.data_qubits)))
        B2 == measure_qubits(B1, Mapped(c, c.data_qubits))
        max_lookback == Len(c.data_qubits) + Len(c.auxiliary_qubits)
    IN  closing_detectors(B2, c, c.x_auxiliary_qubits, max_lookback, c.x_distance)

\* the mutant of logical_z_indices: the positions in the data record, not
\* shifted back by the length of the data record
logical_z_indices_unshifted(c) ==
    LET OnRow(idx) == c.data_qubits[idx + 1][2] = 2 * (c.y_dim - 2)
    IN  Filter(PyRange(0, Len(c.data_qubits), 1), OnRow)

\* logical_z_memory: logical_indices (qub.y == self.y_dim - 2)
logical_z_indices(c) ==
    LET lookback == Len(c.data_qubits)
        OnRow(idx) == c.data_qubits[idx + 1][2] = 2 * (c.y_dim - 2)
        hits == Filter(PyRange(0, Len(c.data_qubits), 1), OnRow)
    IN  [i \in 1..Len(hits) |-> -lookback + hits[i]]

\* the mutant of logical_x_indices: the data qubits of the first column
logical_x_indices_first_column(c) ==
    LET lookback == Len(c.data_qubits)
        OnColumn(idx) == c.data_qubits[idx + 1][1] = 2
        hits == Filter(PyRange(0, Len(c.data_qubits), 1), OnColumn)
    IN  [i \in 1..Len(hits) |-> -lookback + hits[i]]

\* logical_x_memory: logical_indices (qub.x == self.x_dim - 2)
logical_x_indices(c) ==
    LET lookback == Len(c.data_qubits)
        OnColumn(idx) == c.data_qubits[idx + 1][1] = 2 * (c.x_dim - 2)
        hits == Filter(PyRange(0, Len(c.data_qubits), 1), OnColumn)
    IN  [i \in 1..Len(hits) |-> -lookback + hits[i]]

(***************************************************************************)
(* RotatedPlanarCodeGadget: the measurement-gadget code's circuits.        *)
(***************************************************************************)
\* itertools.chain.from_iterable(zip(a, b))
Interleave(a, b) ==
    LET n == IF Len(a) < Len(b) THEN Len(a) ELSE Len(b)
    IN  [i \in 1..(2 * n) |-> IF i % 2 = 1 THEN a[(i + 1) \div 2] ELSE b[i \div 2]]

\* RotatedPlanarCodeGadget.encode_flag_qubits
encode_flag_qubits(B, c) ==
    LET pairs == Mapped(c, Interleave(c.auxiliary_qubits, c.flag_qubits))
        B1 == code_time_step(reset_qubits(B, Mapped(c, c.auxiliary_qubits \o c.flag_qubits)))
        B2 == code_time_step(H(B1, Mapped(c, c.auxiliary_qubits)))
    IN  code_time_step(CX(B2, pairs))

\* the mutant of decode_flag_qubits: the two Hadamard stages exchanged
decode_flag_qubits_exchanged(B, c) ==
    LET pairs == Mapped(c, Interleave(c.auxiliary_qubits, c.flag_qubits))
        B1 == code_time_step(H(B, Mapped(c, c.auxiliary_qubits)))
        B2 == code_time_step(CX(B1, pairs))
        B3 == code_time_step(H(B2, Mapped(c, c.z_auxiliary_qubits \o c.z_flags)))
    IN  code_time_step(CX(B3, pairs))

\* RotatedPlanarCodeGadget.decode_flag_qubits
decode_flag_qubits(B, c) ==
    LET pairs == Mapped(c, Interleave(c.auxiliary_qubits, c.flag_qubits))
        B1 == code_time_step(H(B, Mapped(c, c.z_auxiliary_qubits \o c.z_flags)))
        B2 == code_time_step(CX(B1, pairs))
        B3 == code_time_step(H(B2, Mapped(c, c.auxiliary_qubits)))
    IN  code_time_step(CX(B3, pairs))

\* RotatedPlanarCodeGadget.measure_aux_flag_pairs
measure_aux_flag_pairs(B, c) ==
    code_time_step(measure_qubits(B, Mapped(c, c.auxiliary_qubits \o c.flag_qubits)))

\* the mutant of aux_flag_detectors: each flag paired with the record after
\* its auxiliary's
aux_flag_detectors_next_auxiliary(B, c, measurement_round) ==
    LET max_lookback == Len(c.auxiliary_qubits \o c.flag_qubits)
        flag_lookback == Len(c.flag_qubits)
    IN  detectors(B, [k \in 1..Len(c.flag_qubits) |->
            << <<-max_lookback + k, -flag_lookback + (k - 1)>>,
               Label(c.flag_qubits[k], measurement_round) >>])

\* RotatedPlanarCodeGadget.aux_flag_detectors
aux_flag_detectors(B, c, measurement_round) ==
    LET max_lookback == Len(c.auxiliary_qubits \o c.flag_qubits)
        flag_lookback == Len(c.flag_qubits)
    IN  detectors(B, [k \in 1..Len(c.flag_qubits) |->
            << <<-max_lookback + (k - 1), -flag_lookback + (k - 1)>>,
               Label(c.flag_qubits[k], measurement_round) >>])

\* the mutant of x_flag_steps: the ABAB assignment
x_flag_steps_ABAB == {1, 3}

\* the schedule slots (0-based) in which the flag takes the auxiliary's place
x_flag_steps == {1, 2}
z_flag_steps == {1, 2}

\* the cnot_qubits of schedule slot idx (0-based) of _measure_stabilisers
gadget_cnot_qubits(c, idx) ==
    LET x_delta == x_schedule[idx + 1]
        z_delta == z_schedule[idx + 1]
        x_pair(k) ==
            LET data == QubitAdd(c.x_auxiliary_qubits[k], x_delta)
                ctrl == IF idx \notin x_flag_steps
                        THEN c.x_auxiliary_qubits[k] ELSE c.x_flags[k]
            IN  IF InList(data, c.data_qubits) THEN <<ctrl, data>> ELSE <<>>
        z_pair(k) ==
            LET data == QubitAdd(c.z_auxiliary_qubits[k], z_delta)
                targ == IF idx \notin z_flag_steps
                        THEN c.z_auxiliary_qubits[k] ELSE c.z_flags[k]
            IN  IF InList(data, c.data_qubits) THEN <<data, targ>> ELSE <<>>
    IN  Flatten([k \in 1..Len(c.x_auxiliary_qubits) |-> x_pair(k)])
        \o Flatten([k \in 1..Len(c.z_auxiliary_qubits) |-> z_pair(k)])

RECURSIVE _measure_stabilisers(_, _, _)
\* RotatedPlanarCodeGadget._measure_stabilisers, from slot idx (0-based) on
_measure_stabilisers(B, c, idx) ==
    IF idx >= Len(x_schedule) THEN B
    ELSE _measure_stabilisers(
            code_time_step(CX(B, Mapped(c, gadget_cnot_qubits(c, idx)))), c, idx + 1)

\* RotatedPlanarCodeGadget._measure_syndromes_
gadget_measure_syndromes_(B, c) ==
    LET B1 == encode_flag_qubits(B, c)
        B2 == _measure_stabilisers(B1, c, 0)
        B3 == decode_flag_qubits(B2, c)
        B4 == measure_aux_flag_pairs(B3, c)
    IN  reset_qubits(B4, Mapped(c, c.auxiliary_qubits \o c.flag_qubits))

\* RotatedPlanarCodeGadget.encode_logical_zero
gadget_encode_logical_zero(B, c) ==
    LET B1 == gadget_measure_syndromes_(code_time_step(reset_all_qubits(B)), c)
        B2 == aux_flag_detectors(B1, c, 0)
        max_lookback == Len(c.z_auxiliary_qubits) + Len(c.flag_qubits)
    IN  detectors(B2, [k \in 1..Len(c.z_auxiliary_qubits) |->
            << <<-max_lookback + (k - 1)>>, Label(c.z_auxiliary_qubits[k], 0) >>])

\* RotatedPlanarCodeGadget.encode_logical_plus
gadget_encode_logical_plus(B, c) ==
    LET B1 == gadget_measure_syndromes_(code_time_step(reset_all_qubits(B)), c)
        B2 == aux_flag_detectors(B1, c, 0)
        max_lookback == Len(c.auxiliary_qubits) + Len(c.flag_qubits)
    IN  detectors(B2, [k \in 1..Len(c.x_auxiliary_qubits) |->
            << <<-max_lookback + (k - 1)>>, Label(c.x_auxiliary_qubits[k], 0) >>])

\* the mutant of gadget_syndrome_round_lookbacks: the previous round's
\* lookback a whole round (auxiliaries and flags) deeper than the current one
gadget_syndrome_round_lookbacks_full_round(c, idx) ==
    LET max_lookback == Len(c.auxiliary_qubits) + Len(c.flag_qubits)
    IN  <<-max_lookback + idx, -2 * max_lookback + idx>>

\* RotatedPlanarCodeGadget.syndrome_extraction: the lookbacks of auxiliary idx
gadget_syndrome_round_lookbacks(c, idx) ==
    LET max_lookback == Len(c.auxiliary_qubits) + Len(c.flag_qubits)
        previous_round_lookback == max_lookback + Len(c.flag_qubits)
    IN  <<-max_lookback + idx, -previous_round_lookback + idx>>

\* RotatedPlanarCodeGadget.syndrome_extraction: the body of the loop, round _r
gadget_syndrome_extraction_round(B, c, _r) ==
    LET B1 == gadget_measure_syndromes_(B, c)
        B2 == aux_flag_detectors(B1, c, _r)
    IN  detectors(B2, [k \in 1..Len(c.auxiliary_qubits) |->
            << gadget_syndrome_round_lookbacks(c, k - 1),
               Label(c.auxiliary_qubits[k], _r) >>])

\* the mutant of gadget_measure_data_qubits_for_z_memory: the lookback taken
\* over all flags, as the X memory does
gadget_measure_data_qubits_for_z_memory_all_flags(B, c) ==
    LET B1 == measure_qubits(B, Mapped(c, c.data_qubits))
        ancilla_lookback == Len(c.data_qubits) + Len(c.flag_qubits)
    IN  closing_detectors(B1, c, c.z_auxiliary_qubits, ancilla_lookback, c.z_distance)

\* RotatedPlanarCodeGadget.measure_data_qubits_for_z_memory
gadget_measure_data_qubits_for_z_memory(B, c) ==
    LET B1 == measure_qubits(B, Mapped(c, c.data_qubits))
        ancilla_lookback == Len(c.data_qubits) + Len(c.z_flags)
    IN  closing_detectors(B1, c, c.z_auxiliary_qubits, ancilla_lookback, c.z_distance)

\* RotatedPlanarCodeGadget.measure_data_qubits_for_x_memory
gadget_measure_data_qubits_for_x_memory(B, c) ==
    LET B1 == code_time_step(H(B, Mapped(c, c.data_qubits)))
        B2 == measure_qubits(B1, Mapped(c, c.data_qubits))
        max_lookback == Len(c.data_qubits) + Len(c.flag_qubits)
    IN  closing_detectors(B2, c, c.x_auxiliary_qubits, max_lookback, c.x_distance)

(***************************************************************************)
(* logical_z_memory / logical_x_memory as a state machine: one action per  *)
(* method the memory experiment calls, in the order it calls them.         *)
(***************************************************************************)
Variants == {"plain", "gadget"}

\* the profile the codes are built with: the constructors' default
MemoryProfiles == {DepolarizingNoise(0)}

\* RotatedPlanarCode(x_distance, z_distance, noise_profile), or the gadget:
\* the constructor registers the qubits in the circuit
InitMemory ==
    \E variant \in Variants, x_distance \in 1..MaxDist, z_distance \in 1..MaxDist,
       R \in 0..MaxRounds, m \in {"z", "x"}, profile \in MemoryProfiles :
        LET c == NewCode(variant, x_distance, z_distance)
            B == add_qubits(NewCircuit(profile), c.qubit_coords)
        IN  /\ circuit = B.circuit
            /\ idling_qubits = B.idling_qubits
            /\ valid_qubits = B.valid_qubits
            /\ noise_profile = B.noise_profile
            /\ raised = "none"
            /\ call = Call("__init__", <<>>)
            /\ nops = 0
            /\ code = c
            /\ pc = "encode"
            /\ memory = m
            /\ rounds = R
            /\ round_r = 0

MemoryCall(op, B) ==
    /\ call' = Call(op, <<>>)
    /\ Becomes(B)
    /\ UNCHANGED <<nops, code, memory, rounds>>

EncodeLogicalZero ==
    /\ pc = "encode" /\ memory = "z"
    /\ MemoryCall("encode_logical_zero",
                  IF code.variant = "plain" THEN encode_logical_zero(Cur, code)
                  ELSE gadget_encode_logical_zero(Cur, code))
    /\ pc' = "syndrome_extraction"
    /\ round_r' = 1

EncodeLogicalPlus ==
    /\ pc = "encode" /\ memory = "x"
    /\ MemoryCall("encode_logical_plus",
                  IF code.variant = "plain" THEN encode_logical_plus(Cur, code)
                  ELSE gadget_encode_logical_plus(Cur, code))
    /\ pc' = "syndrome_extraction"
    /\ round_r' = 1

\* syndrome_extraction: for _r in range(1, rounds), one iteration
\* the mutant of RepeatRounds: the loop counts from 0
RepeatRounds_from_zero(n) == PyRange(0, n, 1)

\* syndrome_extraction: range(1, rounds), the values of the loop variable _r
RepeatRounds(n) == PyRange(1, n, 1)

\* one iteration of syndrome_extraction's loop; round_r - 1 iterations are done
SyndromeExtractionRound ==
    /\ pc = "syndrome_extraction" /\ round_r <= Len(RepeatRounds(rounds))
    /\ MemoryCall("syndrome_extraction",
                  IF code.variant = "plain"
                  THEN syndrome_extraction_round(Cur, code, RepeatRounds(rounds)[round_r])
                  ELSE gadget_syndrome_extraction_round(Cur, code,
                                                        RepeatRounds(rounds)[round_r]))
    /\ round_r' = round_r + 1
    /\ pc' = pc

MeasureDataQubitsForZMemory ==
    /\ pc = "syndrome_extraction" /\ round_r > Len(RepeatRounds(rounds)) /\ memory = "z"
    /\ MemoryCall("measure_data_qubits_for_z_memory",
                  IF code.variant = "plain"
                  THEN measure_data_qubits_for_z_memory(Cur, code)
                  ELSE gadget_measure_data_qubits_for_z_memory(Cur, code))
    /\ pc' = "add_logical"
    /\ round_r' = round_r

MeasureDataQubitsForXMemory ==
    /\ pc = "syndrome_extraction" /\ round_r > Len(RepeatRounds(rounds)) /\ memory = "x"
    /\ MemoryCall("measure_data_qubits_for_x_memory",
                  IF code.variant = "plain"
                  THEN measure_data_qubits_for_x_memory(Cur, code)
                  ELSE gadget_measure_data_qubits_for_x_memory(Cur, code))
    /\ pc' = "add_logical"
    /\ round_r' = round_r

\* the end of logical_z_memory / logical_x_memory: the logical observable
AddLogical ==
    /\ pc = "add_logical"
    /\ MemoryCall("add_logical",
                  add_logical(Cur, IF memory = "z" THEN logical_z_indices(code)
                                   ELSE logical_x_indices(code)))
    /\ pc' = "done"
    /\ round_r' = round_r

\* _measure_syndromes_ called on the freshly constructed code, as the tests do
MeasureSyndromes ==
    /\ pc = "encode"
    /\ MemoryCall("_measure_syndromes_",
                  IF code.variant = "plain" THEN _measure_syndromes_(Cur, code)
                  ELSE gadget_measure_syndromes_(Cur, code))
    /\ pc' = "measured"
    /\ round_r' = round_r

NextMemory ==
    \/ MeasureSyndromes
    \/ EncodeLogicalZero
    \/ EncodeLogicalPlus
    \/ SyndromeExtractionRound
    \/ MeasureDataQubitsForZMemory
    \/ MeasureDataQubitsForXMemory
    \/ AddLogical

SpecMemory == InitMemory /\ [][NextMemory]_vars

(***************************************************************************)
(* A code instance reused: QuantumMemory.memory_experiment cleans the      *)
(* circuit of the instance it was given and builds the next experiment.    *)
(***************************************************************************)
\* the mutant of clean_circuit: the log is not emptied before the qubits are
\* registered again
clean_circuit_without_clear(B, c) == add_qubits(B, c.qubit_coords)

\* QuantumErrorCorrectionCode.clean_circuit
clean_circuit(B, c) == add_qubits(clear(B), c.qubit_coords)

\* a code instance of distances up to MaxReuseDist, freshly constructed
InitReuse ==
    \E variant \in Variants, x_distance \in 1..MaxReuseDist,
       z_distance \in 1..MaxReuseDist, R \in 1..MaxRounds, m \in {"z", "x"},
       profile \in MemoryProfiles :
        LET c == NewCode(variant, x_distance, z_distance)
            B == add_qubits(NewCircuit(profile), c.qubit_coords)
        IN  /\ circuit = B.circuit
            /\ idling_qubits = B.idling_qubits
            /\ valid_qubits = B.valid_qubits
            /\ noise_profile = B.noise_profile
            /\ raised = "none"
            /\ call = Call("__init__", <<>>)
            /\ nops = 0
            /\ code = c
            /\ pc = "encode"
            /\ memory = m
            /\ rounds = R
            /\ round_r = 0

\* memory_experiment(logical, rounds) up to its call of clean_circuit, on an
\* instance on which anything may have been built; nops counts the reuses
CleanCircuit ==
    /\ nops < MaxReuses
    /\ nops' = nops + 1
    /\ call' = Call("clean_circuit", <<>>)
    /\ Becomes(clean_circuit(Cur, code))
    /\ \E m \in {"z", "x"}, R \in 1..MaxRounds : memory' = m /\ rounds' = R
    /\ pc' = "encode"
    /\ round_r' = 0
    /\ UNCHANGED code

NextReuse == CleanCircuit \/ NextMemory

SpecReuse == InitReuse /\ [][NextReuse]_vars

RECURSIVE syndrome_extraction(_, _, _, _)
\* syndrome_extraction(rounds=n) from its k-th iteration on; an exception
\* ends the loop
syndrome_extraction(B, c, n, k) ==
    IF k > Len(RepeatRounds(n)) THEN B
    ELSE LET Bk == IF c.variant = "plain"
                   THEN syndrome_extraction_round(B, c, RepeatRounds(n)[k])
                   ELSE gadget_syndrome_extraction_round(B, c, RepeatRounds(n)[k])
         IN  IF Bk.raised # "none" THEN Bk ELSE syndrome_extraction(Bk, c, n, k + 1)

\* logical_z_memory(rounds=n) (m = "z") and logical_x_memory(rounds=n); an
\* exception ends the method
logical_memory(B, c, m, n) ==
    LET plain == c.variant = "plain"
        B1 == IF m = "z"
              THEN (IF plain THEN encode_logical_zero(B, c)
                    ELSE gadget_encode_logical_zero(B, c))
              ELSE (IF plain THEN encode_logical_plus(B, c)
                    ELSE gadget_encode_logical_plus(B, c))
        B2 == syndrome_extraction(B1, c, n, 1)
        B3 == IF m = "z"
              THEN (IF plain THEN measure_data_qubits_for_z_memory(B2, c)
                    ELSE gadget_measure_data_qubits_for_z_memory(B2, c))
              ELSE (IF plain THEN measure_data_qubits_for_x_memory(B2, c)
                    ELSE gadget_measure_data_qubits_for_x_memory(B2, c))
    IN  IF B1.raised # "none" THEN B1
        ELSE IF B2.raised # "none" THEN B2
        ELSE IF B3.raised # "none" THEN B3
        ELSE add_logical(B3, IF m = "z" THEN logical_z_indices(c)
                             ELSE logical_x_indices(c))

\* the qubits asked about: every point of the half-integer grid over the
\* layout and one unit around it (coordinates doubled)
Probes(c) == ((-2)..(2 * c.x_dim + 2)) \X ((-2)..(2 * c.y_dim + 2))

\* _neighbouring_data_qubits(qubit) called on the freshly constructed code, as
\* the tests do: it raises ValueError or returns the neighbouring data qubits
NeighbouringDataQubits ==
    /\ pc = "encode"
    /\ call.op = "__init__"
    /\ \E qubit \in Probes(code) :
          /\ call' = [ op |-> "_neighbouring_data_qubits",
                       qubits |-> <<qubit>>,
                       returned |-> IF NotAuxiliary(code, qubit) THEN <<>>
                                    ELSE _neighbouring_data_qubits(code, qubit) ]
          /\ raised' = IF NotAuxiliary(code, qubit) THEN "ValueError" ELSE "none"
    /\ UNCHANGED <<circuit, idling_qubits, valid_qubits, noise_profile, nops,
                   code, pc, memory, rounds, round_r>>

NextLayout == NeighbouringDataQubits

SpecLayout == InitMemory /\ [][NextLayout]_vars

(***************************************************************************)
(* Reading the log: steps and noise events.                                *)
(***************************************************************************)
NoiseChannelNames == {"DEPOLARIZE1", "DEPOLARIZE2", "X_ERROR"}
GateNames == {"H", "CX", "R"}

\* the positions of the step markers of a log
Ticks(log) == {i \in 1..Len(log) : log[i].name = "TICK"}

\* a gate's, reset's or measurement's instruction
IsOperation(log, i) == log[i].name \in GateNames \cup {"M"}

\* the noise channel a gate or reset is paired with: it follows its operation
IsPairedNoise(log, i) ==
    /\ log[i].name \in NoiseChannelNames
    /\ i > 1
    /\ log[i - 1].name \in GateNames
    /\ log[i - 1].targets = log[i].targets

\* a noise channel not paired with an operation: idle noise
IsIdleNoise(log, i) ==
    log[i].name \in NoiseChannelNames /\ ~IsPairedNoise(log, i)

\* a noise-carrying instruction: gate noise, reset noise, measurement flip, idle
IsNoise(log, i) == log[i].name \in NoiseChannelNames \cup {"M"}

\* how many times qubit q is a target of the instructions at positions `at`
Occurrences(log, at, q) ==
    SumSeq([k \in 1..Len(log) |-> IF k \in at THEN Count(log[k].targets, q) ELSE 0])

\* the positions strictly between two positions of the log
Between(lo, hi) == (lo + 1)..(hi - 1)

\* the last step marker before position n, or 0
PrevTick(log, n) ==
    LET before == {t \in Ticks(log) : t < n}
    IN  IF before = {} THEN 0 ELSE CHOOSE t \in before : \A u \in before : u <= t

\* the instructions of the step the last instruction (a step marker) closes
LastStep(log) == Between(PrevTick(log, Len(log)), Len(log))

\* no call has ever named an unregistered index
OnlyRegistered == DictKeys(idling_qubits) = 0..(valid_qubits - 1)

StepClosed == call.op = "time_step" /\ OnlyRegistered

\* C1 (as stated): after time_step closes a step of operations on registered
\* qubits, every registered qubit has received exactly one noise event since
\* the previous step boundary.
C1_ExactlyOneNoiseEvent ==
    StepClosed =>
        \A q \in 0..(valid_qubits - 1) :
            Occurrences(circuit, {i \in LastStep(circuit) : IsNoise(circuit, i)}, q) = 1

\* C1 (amended): after time_step closes a step of operations on registered
\* qubits, every registered qubit has received at least one noise event since
\* the previous step boundary: exactly one idle-noise event when no operation
\* touched it, and otherwise no idle noise and one noise event for each
\* operation of the step that targets it.
C1_NoiseEventsPerStep ==
    StepClosed =>
        \A q \in 0..(valid_qubits - 1) :
            LET step == LastStep(circuit)
                touches == Occurrences(circuit,
                               {i \in step : IsOperation(circuit, i)}, q)
                paired == Occurrences(circuit,
                               {i \in step : IsPairedNoise(circuit, i)
                                             \/ circuit[i].name = "M"}, q)
                idle == Occurrences(circuit,
                               {i \in step : IsIdleNoise(circuit, i)}, q)
            IN  /\ paired = touches
                /\ idle = (IF touches = 0 THEN 1 ELSE 0)
                /\ paired + idle >= 1

\* C1 witness: a closed step in which one qubit was targeted by two operations
\* and another by none.
C1_Witness ==
    /\ StepClosed
    /\ \E q \in 0..(valid_qubits - 1) :
         Occurrences(circuit, {i \in LastStep(circuit) : IsOperation(circuit, i)}, q) = 2
    /\ \E q \in 0..(valid_qubits - 1) :
         Occurrences(circuit, {i \in LastStep(circuit) : IsOperation(circuit, i)}, q) = 0

\* C8 (as stated): H, CX, reset and measure fail with an error when any index
\* they are given is not registered, and then leave the log as it was.
C8_UnregisteredIndexRejected ==
    [][ ( /\ call'.op \in {"H", "CX", "reset_qubits", "measure_qubits"}
          /\ nops' = nops + 1
          /\ \E i \in 1..Len(call'.qubits) : call'.qubits[i] >= valid_qubits )
        => (raised' # "none" /\ circuit' = circuit) ]_vars

\* C9 (as stated): time_step appends idle noise on exactly the registered
\* qubits not touched since the previous step boundary (none when all were
\* touched), then one step marker, and leaves every touched flag false.
C9_TimeStepIdlesUntouched ==
    [][ (call'.op = "time_step" /\ nops' = nops + 1) =>
        LET untouched == {q \in 0..(valid_qubits - 1) :
                            q \in DictKeys(idling_qubits)
                            /\ DictGet(idling_qubits, q) = 0}
            added == SubSeq(circuit', Len(circuit) + 1, Len(circuit'))
            tick == Instr("TICK", <<>>, NoArg)
        IN  /\ SubSeq(circuit', 1, Len(circuit)) = circuit
            /\ IF untouched = {}
               THEN added = <<tick>>
               ELSE /\ Len(added) = 2
                    /\ added[1].name = noise_profile.idle_noise[1]
                    /\ Range(added[1].targets) = untouched
                    /\ Len(added[1].targets) = Cardinality(untouched)
                    /\ added[2] = tick
            /\ \A i \in 1..Len(idling_qubits') : idling_qubits'[i][2] = 0 ]_vars

(***************************************************************************)
(* Reading the log: the measurement record and the detectors.              *)
(***************************************************************************)
\* the positions of the measurement instructions among the first n of a log
MeasurementPositions(log, n) ==
    LET IsM(i) == log[i].name = "M"
    IN  Filter([i \in 1..n |-> i], IsM)

\* the measurement record after the first n instructions of a log: the
\* measured qubits, oldest first
MeasRecord(log, n) ==
    LET ms == MeasurementPositions(log, n)
    IN  Flatten([k \in 1..Len(ms) |-> log[ms[k]].targets])

\* the record (1-based) a lookback names when the record holds n outcomes
Resolve(n, lookback) == n + lookback + 1

\* the position in the record of the nth measurement of qubit q, 0 if none
NthRecordOf(rec, q, n) ==
    LET hits == {i \in 1..Len(rec) : rec[i] = q}
        at == {i \in hits : Cardinality({j \in hits : j <= i}) = n}
    IN  IF at = {} THEN 0 ELSE CHOOSE i \in at : TRUE

\* the position in the record of the last measurement of qubit q, 0 if none
LastRecordOf(rec, q) ==
    NthRecordOf(rec, q, Cardinality({i \in 1..Len(rec) : rec[i] = q}))

\* the detectors among the instructions a step has appended to the log
EmittedDetectors ==
    LET IsDetector(ins) == ins.name = "DETECTOR"
    IN  Filter(SubSeq(circuit', Len(circuit) + 1, Len(circuit')), IsDetector)

\* the set of records the lookbacks of a detector resolve to
ResolvedRecords(n, detector) ==
    {Resolve(n, detector.targets[j]) : j \in 1..Len(detector.targets)}

\* the data qubits on the corners of an auxiliary's plaquette
PlaquetteData(c, aux) ==
    {d \in Range(c.data_qubits) :
        /\ d[1] - aux[1] \in {-2, 2}
        /\ d[2] - aux[2] \in {-2, 2}}

\* a step that runs one iteration of syndrome_extraction's loop
RepeatRoundStep(variant) ==
    /\ call'.op = "syndrome_extraction"
    /\ round_r' = round_r + 1
    /\ code.variant = variant

\* a step that runs the final readout of the data qubits
ReadoutStep(variant) ==
    /\ call'.op \in {"measure_data_qubits_for_z_memory",
                     "measure_data_qubits_for_x_memory"}
    /\ pc = "syndrome_extraction" /\ pc' = "add_logical"
    /\ code.variant = variant

\* the auxiliaries the final readout closes: Z-type for the logical-Z memory,
\* X-type for the logical-X memory
ClosedAuxiliaries ==
    IF memory = "z" THEN code.z_auxiliary_qubits ELSE code.x_auxiliary_qubits

\* the flags paired with the auxiliaries the final readout closes
ClosedFlags == IF memory = "z" THEN code.z_flags ELSE code.x_flags

\* C2 (as stated): in the gadget variant, every across-round detector of
\* repeat round r references exactly two records, the auxiliary's own
\* measurement in round r and the same auxiliary's own measurement in round
\* r-1, the two lookbacks differing by 2*|auxiliary_qubits|.
C2_GadgetAcrossRoundOwnRecord ==
    [][ RepeatRoundStep("gadget") =>
        LET emitted == EmittedDetectors
            nA == Len(code.auxiliary_qubits)
            across == SubSeq(emitted, Len(code.flag_qubits) + 1, Len(emitted))
            rec == MeasRecord(circuit', Len(circuit'))
            aux == Mapped(code, code.auxiliary_qubits)
        IN  /\ Len(across) = nA
            /\ \A k \in 1..nA :
                 /\ Len(across[k].targets) = 2
                 /\ Resolve(Len(rec), across[k].targets[1])
                      = NthRecordOf(rec, aux[k], round_r + 1)
                 /\ Resolve(Len(rec), across[k].targets[2])
                      = NthRecordOf(rec, aux[k], round_r)
                 /\ across[k].targets[1] - across[k].targets[2] = 2 * nA ]_vars

\* C2 (amended): in the gadget variant, every across-round detector of repeat
\* round r references exactly two records, the auxiliary's own measurement in
\* round r and the measurement of the flag paired with that auxiliary in
\* round r-1, the two lookbacks differing by |auxiliary_qubits|, half the
\* per-round measurement count.
C2_GadgetAcrossRoundFlagRecord ==
    [][ RepeatRoundStep("gadget") =>
        LET emitted == EmittedDetectors
            nA == Len(code.auxiliary_qubits)
            across == SubSeq(emitted, Len(code.flag_qubits) + 1, Len(emitted))
            rec == MeasRecord(circuit', Len(circuit'))
            aux == Mapped(code, code.auxiliary_qubits)
            flag == Mapped(code, code.flag_qubits)
        IN  /\ Len(across) = nA
            /\ Len(rec) = 2 * nA * (round_r + 1)
            /\ \A k \in 1..nA :
                 /\ code.flag_qubits[k] = QubitAdd(code.auxiliary_qubits[k], <<1, 1>>)
                 /\ Len(across[k].targets) = 2
                 /\ Resolve(Len(rec), across[k].targets[1]) \in 1..Len(rec)
                 /\ Resolve(Len(rec), across[k].targets[1])
                      = NthRecordOf(rec, aux[k], round_r + 1)
                 /\ Resolve(Len(rec), across[k].targets[2]) \in 1..Len(rec)
                 /\ Resolve(Len(rec), across[k].targets[2])
                      = NthRecordOf(rec, flag[k], round_r)
                 /\ across[k].targets[1] - across[k].targets[2] = nA ]_vars

\* C2 witness: the gadget code of distance 3 has run its second repeat round.
C2_Witness ==
    /\ call.op = "syndrome_extraction"
    /\ code.variant = "gadget"
    /\ round_r = 3
    /\ Len(code.x_auxiliary_qubits) = 4 /\ Len(code.z_auxiliary_qubits) = 4
    /\ raised = "none"

\* C3: in the plain code, repeat round r emits exactly one detector for every
\* auxiliary, whose two lookbacks resolve to that auxiliary's measurement in
\* round r and to its measurement in round r-1, and differ by
\* |auxiliary_qubits|.
C3_PlainAcrossRoundDetectors ==
    [][ RepeatRoundStep("plain") =>
        LET emitted == EmittedDetectors
            nA == Len(code.auxiliary_qubits)
            rec == MeasRecord(circuit', Len(circuit'))
            aux == Mapped(code, code.auxiliary_qubits)
        IN  /\ Len(emitted) = nA
            /\ \A k \in 1..nA :
                 /\ Len(emitted[k].targets) = 2
                 /\ Resolve(Len(rec), emitted[k].targets[1]) \in 1..Len(rec)
                 /\ Resolve(Len(rec), emitted[k].targets[1])
                      = NthRecordOf(rec, aux[k], round_r + 1)
                 /\ Resolve(Len(rec), emitted[k].targets[2]) \in 1..Len(rec)
                 /\ Resolve(Len(rec), emitted[k].targets[2])
                      = NthRecordOf(rec, aux[k], round_r)
                 /\ emitted[k].targets[1] - emitted[k].targets[2] = nA
                 /\ emitted[k].arg = Label(code.auxiliary_qubits[k], round_r) ]_vars

\* C3 witness: the plain code of distance 3, with X-type and Z-type
\* auxiliaries, has run its second repeat round.
C3_Witness ==
    /\ call.op = "syndrome_extraction"
    /\ code.variant = "plain"
    /\ round_r = 3
    /\ Len(code.x_auxiliary_qubits) = 4 /\ Len(code.z_auxiliary_qubits) = 4
    /\ raised = "none"

\* C4: in the plain code's final readout exactly one closing detector is
\* emitted for every Z-type auxiliary (X-type for the logical-X memory), and
\* its lookbacks resolve to exactly the final records of the data qubits on
\* that auxiliary's plaquette plus that auxiliary's record of the last
\* syndrome round.
C4_PlainClosingDetectors ==
    [][ ReadoutStep("plain") =>
        LET emitted == EmittedDetectors
            aux == ClosedAuxiliaries
            rec == MeasRecord(circuit', Len(circuit'))
            Expected(a) ==
                {LastRecordOf(rec, code.qubit_map[d]) : d \in PlaquetteData(code, a)}
                \cup {NthRecordOf(rec, code.qubit_map[a], round_r)}
        IN  /\ Len(emitted) = Len(aux)
            /\ \A k \in 1..Len(aux) :
                 /\ ResolvedRecords(Len(rec), emitted[k]) = Expected(aux[k])
                 /\ Len(emitted[k].targets) = Cardinality(Expected(aux[k]))
                 /\ 0 \notin Expected(aux[k])
                 /\ NthRecordOf(rec, code.qubit_map[aux[k]], round_r)
                      = LastRecordOf(rec, code.qubit_map[aux[k]]) ]_vars

\* C4 witness: the plain code of distance 3 has read out its data qubits for
\* the logical-Z memory after three syndrome rounds.
C4_Witness ==
    /\ call.op = "measure_data_qubits_for_z_memory"
    /\ code.variant = "plain"
    /\ rounds = 3
    /\ Len(code.x_auxiliary_qubits) = 4 /\ Len(code.z_auxiliary_qubits) = 4
    /\ \E k \in 1..Len(code.z_auxiliary_qubits) :
         Cardinality(PlaquetteData(code, code.z_auxiliary_qubits[k])) = 4
    /\ \E k \in 1..Len(code.z_auxiliary_qubits) :
         Cardinality(PlaquetteData(code, code.z_auxiliary_qubits[k])) = 2
    /\ raised = "none"

\* C5 (as stated): in the gadget variant's final readout, the closing
\* detector of every Z-type auxiliary (X-type for the logical-X memory)
\* resolves to exactly the final records of the data qubits on that
\* auxiliary's plaquette plus that auxiliary's own record of the last
\* syndrome round.
C5_GadgetClosingOwnRecord ==
    [][ ReadoutStep("gadget") =>
        LET emitted == EmittedDetectors
            aux == ClosedAuxiliaries
            rec == MeasRecord(circuit', Len(circuit'))
            Expected(a) ==
                {LastRecordOf(rec, code.qubit_map[d]) : d \in PlaquetteData(code, a)}
                \cup {NthRecordOf(rec, code.qubit_map[a], round_r)}
        IN  /\ Len(emitted) = Len(aux)
            /\ \A k \in 1..Len(aux) :
                 ResolvedRecords(Len(rec), emitted[k]) = Expected(aux[k]) ]_vars

\* C5 (amended): in the gadget variant's final readout, the closing detector
\* of every Z-type auxiliary (X-type for the logical-X memory) resolves to
\* exactly the final records of the data qubits on that auxiliary's plaquette
\* plus the record, in the last syndrome round, of the flag paired with that
\* auxiliary.
C5_GadgetClosingFlagRecord ==
    [][ ReadoutStep("gadget") =>
        LET emitted == EmittedDetectors
            aux == ClosedAuxiliaries
            flag == ClosedFlags
            rec == MeasRecord(circuit', Len(circuit'))
            Expected(k) ==
                {LastRecordOf(rec, code.qubit_map[d]) :
                    d \in PlaquetteData(code, aux[k])}
                \cup {NthRecordOf(rec, code.qubit_map[flag[k]], round_r)}
        IN  /\ Len(emitted) = Len(aux)
            /\ \A k \in 1..Len(aux) :
                 /\ flag[k] = QubitAdd(aux[k], <<1, 1>>)
                 /\ ResolvedRecords(Len(rec), emitted[k]) = Expected(k)
                 /\ Len(emitted[k].targets) = Cardinality(Expected(k))
                 /\ 0 \notin Expected(k)
                 /\ NthRecordOf(rec, code.qubit_map[flag[k]], round_r)
                      = LastRecordOf(rec, code.qubit_map[flag[k]]) ]_vars

\* C5 witness: the gadget code of distance 3 has read out its data qubits for
\* the logical-X memory after two syndrome rounds.
C5_Witness ==
    /\ call.op = "measure_data_qubits_for_x_memory"
    /\ code.variant = "gadget"
    /\ rounds = 2
    /\ Len(code.x_auxiliary_qubits) = 4 /\ Len(code.z_auxiliary_qubits) = 4
    /\ raised = "none"

\* the number of measurement outcomes recorded before instruction i
RecordedBefore(log, i) == Len(MeasRecord(log, i - 1))

\* the detector and observable instructions of a log
RecordInstructions(log) ==
    {i \in 1..Len(log) : log[i].name \in {"DETECTOR", "OBSERVABLE_INCLUDE"}}

\* C6: every lookback of every detector and observable that logical_z_memory
\* and logical_x_memory emit is strictly negative and reaches no further back
\* than the measurements recorded when the instruction is emitted.
C6_LookbacksWithinRecord ==
    \A i \in RecordInstructions(circuit) :
        \A j \in 1..Len(circuit[i].targets) :
            /\ circuit[i].targets[j] < 0
            /\ -circuit[i].targets[j] <= RecordedBefore(circuit, i)

\* C6 witness: a finished gadget memory experiment of three rounds whose log
\* holds an observable and a detector reaching back to the oldest record of
\* the moment it was emitted.
C6_Witness ==
    /\ pc = "done"
    /\ code.variant = "gadget"
    /\ rounds = 3
    /\ raised = "none"
    /\ \E i \in RecordInstructions(circuit) :
         circuit[i].name = "OBSERVABLE_INCLUDE" /\ Len(circuit[i].targets) >= 2
    /\ \E i \in RecordInstructions(circuit) :
         /\ circuit[i].name = "DETECTOR"
         /\ \E j \in 1..Len(circuit[i].targets) :
              -circuit[i].targets[j] = RecordedBefore(circuit, i)

\* the noise-carrying events of qubit q at the positions `at` of a log: the
\* <<instruction, target>> pairs of the noise channels and measurements
NoiseEvents(log, at, q) ==
    {e \in UNION {{<<i, j>> : j \in 1..Len(log[i].targets)} :
                      i \in {k \in at : IsNoise(log, k)}} :
        log[e[1]].targets[e[2]] = q}

\* the step markers of a log, in order
TickSeq(log) ==
    LET IsTick(i) == log[i].name = "TICK"
    IN  Filter([i \in 1..Len(log) |-> i], IsTick)

\* C7 (as stated): in the circuit of a memory experiment, between any two
\* consecutive step markers every registered qubit is the target of exactly
\* one noise-carrying instruction.
C7_OneNoisePerStep ==
    pc = "done" =>
        LET ticks == TickSeq(circuit)
        IN  \A k \in 1..(Len(ticks) - 1) :
                \A q \in 0..(valid_qubits - 1) :
                    Cardinality(NoiseEvents(circuit,
                                    Between(ticks[k], ticks[k + 1]), q)) = 1

\* the position of the first two-qubit gate of a log (past its end if none)
FirstCX(log) ==
    LET cxs == {i \in 1..Len(log) : log[i].name = "CX"}
    IN  IF cxs = {} THEN Len(log) + 1
        ELSE CHOOSE i \in cxs : \A j \in cxs : i <= j

\* the position of the first reset of a log (past its end if none)
FirstReset(log) ==
    LET rs == {i \in 1..Len(log) : log[i].name = "R"}
    IN  IF rs = {} THEN Len(log) + 1
        ELSE CHOOSE i \in rs : \A j \in rs : i <= j

\* the qubits the Hadamards at the positions `at` of a log target
HadamardTargets(log, at) ==
    UNION {Range(log[i].targets) : i \in {k \in at : log[k].name = "H"}}

\* C10 (as stated): encode_logical_plus, plain and gadget, applies a Hadamard
\* to every data qubit after the initial reset and before the first two-qubit
\* gate; encode_logical_zero applies no Hadamard to any data qubit.
C10_PlusHadamardsData ==
    LET data == Range(Mapped(code, code.data_qubits))
    IN  /\ call.op = "encode_logical_plus" =>
             data \subseteq HadamardTargets(circuit,
                                Between(FirstReset(circuit), FirstCX(circuit)))
        /\ call.op = "encode_logical_zero" =>
             data \cap HadamardTargets(circuit, 1..Len(circuit)) = {}

\* a step that runs one syndrome round of the given variant: the encode round
\* (round 0) or a repeat round
SyndromeRoundStep(variant) ==
    /\ code.variant = variant
    /\ \/ call'.op \in {"encode_logical_zero", "encode_logical_plus"} /\ pc = "encode"
       \/ RepeatRoundStep(variant)

\* C11: after every gadget syndrome round (the encode round and each repeat
\* round) exactly one within-round detector is emitted per flag qubit, and it
\* references exactly two records: that flag's measurement and its paired
\* auxiliary's measurement of the same round.
C11_WithinRoundDetectors ==
    [][ SyndromeRoundStep("gadget") =>
        LET emitted == EmittedDetectors
            nF == Len(code.flag_qubits)
            rec == MeasRecord(circuit', Len(circuit'))
            aux == Mapped(code, code.auxiliary_qubits)
            flag == Mapped(code, code.flag_qubits)
            FlagRecord(k) == NthRecordOf(rec, flag[k], round_r + 1)
            Naming(k) == {i \in 1..Len(emitted) :
                            FlagRecord(k) \in ResolvedRecords(Len(rec), emitted[i])}
        IN  /\ Len(emitted) >= nF
            /\ Len(code.auxiliary_qubits) = nF
            /\ \A k \in 1..nF :
                 /\ code.flag_qubits[k] = QubitAdd(code.auxiliary_qubits[k], <<1, 1>>)
                 /\ FlagRecord(k) \in 1..Len(rec)
                 /\ FlagRecord(k) = LastRecordOf(rec, flag[k])
                 /\ Naming(k) = {k}
                 /\ Len(emitted[k].targets) = 2
                 /\ ResolvedRecords(Len(rec), emitted[k])
                      = {FlagRecord(k), NthRecordOf(rec, aux[k], round_r + 1)}
                 /\ NthRecordOf(rec, aux[k], round_r + 1) = LastRecordOf(rec, aux[k])
                 /\ NthRecordOf(rec, aux[k], round_r + 1) # FlagRecord(k) ]_vars

\* C11 witness: the gadget code of distance 3 has run its first repeat round
\* of a logical-X memory.
C11_Witness ==
    /\ call.op = "syndrome_extraction"
    /\ code.variant = "gadget"
    /\ round_r = 2
    /\ memory = "x"
    /\ Len(code.x_flags) = 4 /\ Len(code.z_flags) = 4
    /\ raised = "none"

\* a step that runs encode_logical_zero or encode_logical_plus
EncodeStep ==
    /\ pc = "encode"
    /\ call'.op \in {"encode_logical_zero", "encode_logical_plus"}

EveryLayerTargeted == code.x_distance >= 2 /\ code.z_distance >= 2

\* C13: after encode_logical_zero (resp. encode_logical_plus) of a plain code
\* (of distances from 2 up, odd d >= 3 among them) the log ends with a contiguous
\* block of detectors, as many as there are Z-type (resp. X-type)
\* auxiliaries, and the instruction before the block is not a detector.
C13_EncodeEndsWithDetectorBlock ==
    ( /\ code.variant = "plain" /\ EveryLayerTargeted
      /\ call.op \in {"encode_logical_zero", "encode_logical_plus"} )
    => LET n == IF call.op = "encode_logical_zero"
                THEN Len(code.z_auxiliary_qubits) ELSE Len(code.x_auxiliary_qubits)
           last == Len(circuit)
       IN  /\ last - n >= 1
           /\ \A i \in (last - n + 1)..last : circuit[i].name = "DETECTOR"
           /\ circuit[last - n].name # "DETECTOR"

\* C13 witness: the plain code of distance 3 has run encode_logical_plus.
C13_Witness ==
    /\ call.op = "encode_logical_plus"
    /\ code.variant = "plain"
    /\ code.x_distance = 3 /\ code.z_distance = 3
    /\ Len(code.x_auxiliary_qubits) = 4
    /\ circuit[Len(circuit)].name = "DETECTOR"
    /\ raised = "none"

\* the data qubits of the boundary the logical observable reads: maximum y
\* for the logical-Z memory, maximum x for the logical-X memory
BoundaryData ==
    LET data == Range(code.data_qubits)
        axis == IF memory = "z" THEN 2 ELSE 1
    IN  {d \in data : \A e \in data : e[axis] <= d[axis]}

\* C14: logical_z_memory (resp. logical_x_memory) emits exactly one logical
\* observable, as the last instruction of the log, whose lookbacks resolve to
\* exactly the final-readout records of the data qubits of maximum y (resp.
\* maximum x).
C14_LogicalObservable ==
    pc = "done" =>
        LET rec == MeasRecord(circuit, Len(circuit))
            n == Len(rec)
            last == circuit[Len(circuit)]
            expected == {LastRecordOf(rec, code.qubit_map[d]) : d \in BoundaryData}
        IN  /\ {i \in 1..Len(circuit) : circuit[i].name = "OBSERVABLE_INCLUDE"}
                 = {Len(circuit)}
            /\ ResolvedRecords(n, last) = expected
            /\ Len(last.targets) = Cardinality(BoundaryData)
            /\ expected \subseteq (n - Len(code.data_qubits) + 1)..n

\* C14 witness: a finished logical-X memory of the gadget code of distances
\* 3 and 2, whose observable reads the three data qubits of the last column.
C14_Witness ==
    /\ pc = "done"
    /\ memory = "x"
    /\ code.variant = "gadget"
    /\ code.x_distance = 3 /\ code.z_distance = 2
    /\ Cardinality(BoundaryData) = 3
    /\ Len(circuit[Len(circuit)].targets) = 3
    /\ raised = "none"

\* the instructions a step has appended to the log
Appended == SubSeq(circuit', Len(circuit) + 1, Len(circuit'))

\* the positions of the instructions of a given name in a sequence
Named(instrs, name) == {i \in 1..Len(instrs) : instrs[i].name = name}

\* a step that runs _measure_syndromes_ on a freshly constructed code
FreshRoundStep(variant) ==
    /\ pc = "encode"
    /\ call'.op = "_measure_syndromes_"
    /\ code.variant = variant

\* C15: on a freshly constructed plain code (of distances from 2 up, odd d >= 3
\* among them) one syndrome round appends exactly 4 CX instructions, exactly
\* one measurement and exactly one reset, the measurement before the reset.
C15_RoundLayers ==
    [][ (FreshRoundStep("plain") /\ EveryLayerTargeted) =>
        LET added == Appended
        IN  /\ \A i \in 1..Len(circuit) : circuit[i].name = "QUBIT_COORDS"
            /\ Cardinality(Named(added, "CX")) = 4
            /\ Cardinality(Named(added, "M")) = 1
            /\ Cardinality(Named(added, "R")) = 1
            /\ \A m \in Named(added, "M") : \A r \in Named(added, "R") : m < r ]_vars

\* C15 witness: _measure_syndromes_ has run on a fresh plain code of distance 3.
C15_Witness ==
    /\ pc = "measured"
    /\ call.op = "_measure_syndromes_"
    /\ code.variant = "plain"
    /\ code.x_distance = 3 /\ code.z_distance = 3
    /\ Cardinality(Named(circuit, "M")) = 1
    /\ raised = "none"

\* the CX instructions among the instructions a step has appended, in order
AppendedCX ==
    LET IsCX(ins) == ins.name = "CX"
    IN  Filter(Appended, IsCX)

\* the (control, target) pairs of a CX instruction
Pairs(ins) ==
    {<<ins.targets[2 * j - 1], ins.targets[2 * j]>> : j \in 1..(Len(ins.targets) \div 2)}

\* a step that runs one syndrome round: on a fresh code, in an encode, or as
\* a repeat round
AnyRoundStep(variant) == FreshRoundStep(variant) \/ SyndromeRoundStep(variant)

\* C16: in schedule slot k of a plain syndrome round the CX instruction holds
\* one pair for exactly the auxiliaries whose coordinate plus the slot's delta
\* is a data qubit, (X-auxiliary, data) for X-type and (data, Z-auxiliary) for
\* Z-type; an auxiliary with no data qubit at that offset has no pair.
C16_SlotPairs ==
    [][ (AnyRoundStep("plain") /\ EveryLayerTargeted) =>
        LET cx == AppendedCX
            data == Range(code.data_qubits)
            XPairs(k) ==
                {<<code.qubit_map[a], code.qubit_map[QubitAdd(a, x_schedule[k])]>> :
                    a \in {b \in Range(code.x_auxiliary_qubits) :
                              QubitAdd(b, x_schedule[k]) \in data}}
            ZPairs(k) ==
                {<<code.qubit_map[QubitAdd(a, z_schedule[k])], code.qubit_map[a]>> :
                    a \in {b \in Range(code.z_auxiliary_qubits) :
                              QubitAdd(b, z_schedule[k]) \in data}}
        IN  /\ Len(cx) = 4
            /\ \A k \in 1..4 :
                 /\ Pairs(cx[k]) = XPairs(k) \cup ZPairs(k)
                 /\ Len(cx[k].targets) = 2 * Cardinality(XPairs(k) \cup ZPairs(k)) ]_vars

\* C16 witness: a repeat round of the plain code of distances 2 and 3, in
\* which an X-type and a Z-type auxiliary each lack a data qubit in some slot.
C16_Witness ==
    /\ call.op = "syndrome_extraction"
    /\ code.variant = "plain"
    /\ code.x_distance = 2 /\ code.z_distance = 3
    /\ round_r = 2
    /\ \E k \in 1..4 : \E a \in Range(code.x_auxiliary_qubits) :
         QubitAdd(a, x_schedule[k]) \notin Range(code.data_qubits)
    /\ \E k \in 1..4 : \E a \in Range(code.z_auxiliary_qubits) :
         QubitAdd(a, z_schedule[k]) \notin Range(code.data_qubits)
    /\ raised = "none"

\* C17: in the gadget variant, in schedule slots 1 and 2 (0-based) the paired
\* flag takes the auxiliary's place as the partner of the data qubit in the
\* CX, and in slots 0 and 3 the auxiliary itself is the partner, as control
\* for X-type stabilisers and as target for Z-type ones.
C17_FlagReplacesAuxiliary ==
    [][ (AnyRoundStep("gadget") /\ EveryLayerTargeted) =>
        LET cx == AppendedCX
            data == Range(code.data_qubits)
            Partner(a, idx) == IF idx \in {1, 2} THEN QubitAdd(a, <<1, 1>>) ELSE a
            XPairs(idx) ==
                {<<code.qubit_map[Partner(a, idx)],
                   code.qubit_map[QubitAdd(a, x_schedule[idx + 1])]>> :
                    a \in {b \in Range(code.x_auxiliary_qubits) :
                              QubitAdd(b, x_schedule[idx + 1]) \in data}}
            ZPairs(idx) ==
                {<<code.qubit_map[QubitAdd(a, z_schedule[idx + 1])],
                   code.qubit_map[Partner(a, idx)]>> :
                    a \in {b \in Range(code.z_auxiliary_qubits) :
                              QubitAdd(b, z_schedule[idx + 1]) \in data}}
        IN  /\ Len(cx) = 7
            /\ \A a \in Range(code.auxiliary_qubits) :
                 QubitAdd(a, <<1, 1>>) \in Range(code.flag_qubits)
            /\ \A idx \in 0..3 :
                 /\ Pairs(cx[idx + 2]) = XPairs(idx) \cup ZPairs(idx)
                 /\ Len(cx[idx + 2].targets)
                      = 2 * Cardinality(XPairs(idx) \cup ZPairs(idx)) ]_vars

\* C17 witness: _measure_syndromes_ has run on a fresh gadget code of
\* distance 3, with X-type and Z-type stabilisers.
C17_Witness ==
    /\ pc = "measured"
    /\ call.op = "_measure_syndromes_"
    /\ code.variant = "gadget"
    /\ code.x_distance = 3 /\ code.z_distance = 3
    /\ Len(code.x_flags) = 4 /\ Len(code.z_flags) = 4
    /\ Cardinality(Named(circuit, "CX")) = 7
    /\ raised = "none"

\* the operations and step markers among the instructions a step has
\* appended, in order: the noise channels and the detectors left out
AppendedStages ==
    LET IsStage(ins) == ins.name \in GateNames \cup {"M", "TICK"}
    IN  Filter(Appended, IsStage)

\* C18: one gadget syndrome round emits, in this order, each but the last
\* closed by a step marker: reset of auxiliaries and flags, H on the
\* auxiliaries, CX auxiliary -> flag, the four data-coupling CX layers, H on
\* the Z-type auxiliaries and flags, CX auxiliary -> flag, H on the
\* auxiliaries, CX auxiliary -> flag, one measurement of the auxiliaries then
\* the flags, and the reset of auxiliaries and flags.
C18_GadgetRoundStages ==
    [][ (AnyRoundStep("gadget") /\ EveryLayerTargeted) =>
        LET stages == AppendedStages
            \* an encode resets all the qubits and closes the step first
            round == IF EncodeStep THEN SubSeq(stages, 3, Len(stages)) ELSE stages
            aux == Mapped(code, code.auxiliary_qubits)
            flag == Mapped(code, code.flag_qubits)
            z_pairs == Mapped(code, code.z_auxiliary_qubits \o code.z_flags)
            entangle == [i \in 1..(2 * Len(aux)) |->
                            IF i % 2 = 1 THEN aux[(i + 1) \div 2] ELSE flag[i \div 2]]
            data == Range(Mapped(code, code.data_qubits))
            Is(i, name, targets) ==
                round[2 * i - 1].name = name /\ round[2 * i - 1].targets = targets
            Couples(i) ==
                /\ round[2 * i - 1].name = "CX"
                /\ \A pr \in Pairs(round[2 * i - 1]) :
                     Cardinality({pr[1], pr[2]} \cap data) = 1
        IN  /\ Len(round) = 25
            /\ \A i \in 1..12 : round[2 * i].name = "TICK"
            /\ Is(1, "R", aux \o flag)
            /\ Is(2, "H", aux)
            /\ Is(3, "CX", entangle)
            /\ \A i \in 4..7 : Couples(i)
            /\ Is(8, "H", z_pairs)
            /\ Is(9, "CX", entangle)
            /\ Is(10, "H", aux)
            /\ Is(11, "CX", entangle)
            /\ Is(12, "M", aux \o flag)
            /\ Is(13, "R", aux \o flag) ]_vars

\* C18 witness: the gadget code of distances 3 and 2 has run a repeat round
\* of a logical-Z memory.
C18_Witness ==
    /\ call.op = "syndrome_extraction"
    /\ code.variant = "gadget"
    /\ code.x_distance = 3 /\ code.z_distance = 2
    /\ memory = "z"
    /\ round_r = 2
    /\ Len(code.z_flags) > 0 /\ Len(code.x_flags) > 0
    /\ raised = "none"

\* a step that is a call of the builder operation `op`
BuilderStep(op) == call'.op = op /\ nops' = nops + 1 /\ pc = "builder"

\* the call of a step has left the Circuit as it was
NothingMutated ==
    /\ circuit' = circuit
    /\ idling_qubits' = idling_qubits
    /\ valid_qubits' = valid_qubits

\* C19: CX called with a list of odd length fails with an error before any
\* mutation: nothing is appended to the log and no touched flag changes,
\* whether or not the listed indices are registered.
C19_OddCXRejected ==
    [][ (BuilderStep("CX") /\ Len(call'.qubits) % 2 # 0)
        => (raised' = "ValueError" /\ NothingMutated) ]_vars

\* C19 witness: CX on one registered index has raised, after an earlier
\* operation had appended to the log and set a touched flag.
C19_Witness ==
    /\ call.op = "CX"
    /\ Len(call.qubits) = 1
    /\ call.qubits[1] < valid_qubits
    /\ raised = "ValueError"
    /\ nops >= 2
    /\ \E i \in 1..Len(idling_qubits) : idling_qubits[i][2] = 1
    /\ \E i \in 1..Len(circuit) : circuit[i].name = "H"

\* C20: H or CX called with a list in which some index is greater than or
\* equal to the number of registered qubits raises ValueError, appends
\* nothing and changes no touched flag, not even those of the valid indices
\* of the same list.
C20_UnregisteredGateRejected ==
    [][ ( /\ BuilderStep("H") \/ BuilderStep("CX")
          /\ \E i \in 1..Len(call'.qubits) : call'.qubits[i] >= valid_qubits )
        => (raised' = "ValueError" /\ NothingMutated) ]_vars

\* C20 witness: H on a registered, untouched index and an unregistered one
\* has raised, and the registered index is still untouched.
C20_Witness ==
    /\ call.op = "H"
    /\ Len(call.qubits) = 2
    /\ call.qubits[1] < valid_qubits
    /\ call.qubits[2] >= valid_qubits
    /\ raised = "ValueError"
    /\ DictGet(idling_qubits, call.qubits[1]) = 0
    /\ nops >= 2

(***************************************************************************)
(* Bookkeeping calls of the builder.                                       *)
(***************************************************************************)
\* the offset groups and the labels that a list given to detectors supplies:
\* an element's first component is a group, its second component a label
OffsetGroups(l) == Cardinality({i \in 1..Len(l) : Len(l[i]) >= 1})
Labels(l) == Cardinality({i \in 1..Len(l) : Len(l[i]) >= 2})

C22_ClearResetsIdleTracking ==
    [][ (BuilderStep("clear") /\ OnlyRegistered) =>
        /\ circuit' = <<>>
        /\ \A q \in DictKeys(idling_qubits') : DictGet(idling_qubits', q) = 0
        /\ valid_qubits' = valid_qubits ]_vars

\* what a successful gate call leaves: the log grown by the gate and then the
\* noise channel on the same targets in the same order, and every target
\* marked touched
GateThenNoise(gate, noise) ==
    LET n == Len(circuit)
        qubits == call'.qubits
    IN  /\ Len(circuit') = n + 2
        /\ SubSeq(circuit', 1, n) = circuit
        /\ circuit'[n + 1] = Instr(gate, qubits, NoArg)
        /\ circuit'[n + 2] = Instr(noise[1], qubits, noise[2])
        /\ \A i \in 1..Len(qubits) :
              /\ qubits[i] \in DictKeys(idling_qubits')
              /\ DictGet(idling_qubits', qubits[i]) = 1

\* C23: a CX (an H) that does not raise appends exactly two instructions, the
\* gate and then two-qubit (single-qubit) depolarizing noise on the identical
\* target list, and marks every target touched.
C23_GateThenNoise ==
    [][ /\ (BuilderStep("CX") /\ raised' = "none")
            => (/\ GateThenNoise("CX", noise_profile.two_qubit_gate_noise)
                /\ noise_profile.two_qubit_gate_noise[1] = "DEPOLARIZE2")
        /\ (BuilderStep("H") /\ raised' = "none")
            => (/\ GateThenNoise("H", noise_profile.single_qubit_gate_noise)
                /\ noise_profile.single_qubit_gate_noise[1] = "DEPOLARIZE1") ]_vars

\* C23 witness: a CX on two registered qubits has succeeded after an H on
\* two qubits had, both untouched before the H.
C23_Witness ==
    /\ pc = "builder"
    /\ call.op = "CX"
    /\ raised = "none"
    /\ Len(circuit) >= 4
    /\ circuit[Len(circuit) - 1].name = "CX"
    /\ circuit[Len(circuit) - 3].name = "H"
    /\ Len(circuit[Len(circuit) - 3].targets) = 2
    /\ \A q \in Range(call.qubits) : DictGet(idling_qubits, q) = 1

(***************************************************************************)
(* The layout of the code.                                                 *)
(***************************************************************************)
\* no element of the list occurs twice
Distinct(s) == \A i, j \in 1..Len(s) : s[i] = s[j] => i = j

\* C24: with x_distance = z_distance = d the data and auxiliary qubits are
\* 2*d*d - 1 together, and the coordinates of qubit_coords are pairwise
\* distinct.
C24_QubitCount ==
    code.x_distance = code.z_distance =>
        LET d == code.x_distance
        IN  /\ Len(code.data_qubits) + Len(code.auxiliary_qubits) = 2 * d * d - 1
            /\ Distinct(code.qubit_coords)

\* C24 witness: the plain 3x3 code, 17 qubits, at the end of its memory
\* experiment
C24_Witness ==
    /\ pc = "done"
    /\ code.variant = "plain"
    /\ code.x_distance = 3
    /\ code.z_distance = 3
    /\ Len(code.qubit_coords) = 17
    /\ Len(code.data_qubits) = 9

\* the qubits of the code: data, auxiliary and, in the gadget, flags
CodeQubits ==
    Range(code.data_qubits) \cup Range(code.auxiliary_qubits)
        \cup Range(code.flag_qubits)

\* the coordinate declarations of the log, in order
Declarations ==
    LET IsDecl(ins) == ins.name = "QUBIT_COORDS"
    IN  SelectSeq(circuit, IsDecl)

\* C25: qubit_coords ascends by (y, x); qubit_map is a bijection from the
\* qubits of the code onto 0..n-1, each qubit going to its position in
\* qubit_coords; the i-th coordinate declaration of the log declares index i
\* at qubit_coords[i]; every qubit index that an instruction of the memory
\* circuit targets is one of 0..n-1.
C25_IndexMap ==
    LET coords == code.qubit_coords
        n == Len(coords)
        map == code.qubit_map
    IN  /\ \A i, j \in 1..n :
              i < j => \/ coords[i][2] < coords[j][2]
                       \/ (coords[i][2] = coords[j][2] /\ coords[i][1] <= coords[j][1])
        /\ DOMAIN map = CodeQubits
        /\ n = Cardinality(CodeQubits)
        /\ {map[q] : q \in CodeQubits} = 0..(n - 1)
        /\ \A q \in CodeQubits : coords[map[q] + 1] = q
        /\ Len(Declarations) = n
        /\ \A i \in 1..n : Declarations[i] = Instr("QUBIT_COORDS", <<i - 1>>, coords[i])
        /\ \A k \in 1..Len(circuit) :
              circuit[k].name \in QubitInstr =>
                  \A t \in 1..Len(circuit[k].targets) :
                      circuit[k].targets[t] \in 0..(n - 1)

\* C25 witness: the 3x3 gadget code, 25 qubits with its flags, at the end of
\* its memory experiment
C25_Witness ==
    /\ pc = "done"
    /\ code.variant = "gadget"
    /\ code.x_distance = 3
    /\ code.z_distance = 3
    /\ Len(code.flag_qubits) = 8
    /\ valid_qubits = 25
    /\ \E k \in 1..Len(circuit) : circuit[k].name = "CX"

\* the i-th flag lies at the i-th auxiliary plus Qubit(0.5, 0.5)
FlagsFollow(flags, auxiliary) ==
    /\ Len(flags) = Len(auxiliary)
    /\ \A i \in 1..Len(flags) :
          /\ flags[i][1] - auxiliary[i][1] = 1
          /\ flags[i][2] - auxiliary[i][2] = 1

\* C26: in the gadget variant the i-th flag qubit is the i-th auxiliary qubit
\* plus (0.5, 0.5), for x_flags against x_auxiliary_qubits, z_flags against
\* z_auxiliary_qubits and flag_qubits against auxiliary_qubits.
C26_FlagsFollowAuxiliaries ==
    code.variant = "gadget" =>
        /\ FlagsFollow(code.x_flags, code.x_auxiliary_qubits)
        /\ FlagsFollow(code.z_flags, code.z_auxiliary_qubits)
        /\ FlagsFollow(code.flag_qubits, code.auxiliary_qubits)

\* C26 witness: a gadget code with several flags of each type, and more of
\* one type than of the other
C26_Witness ==
    /\ pc = "done"
    /\ code.variant = "gadget"
    /\ Len(code.x_flags) >= 2
    /\ Len(code.z_flags) >= 2
    /\ Len(code.x_flags) # Len(code.z_flags)

\* C27: auxiliary_qubits is x_auxiliary_qubits followed by z_auxiliary_qubits,
\* and the measurement of every syndrome round, plain or gadget, records the
\* auxiliaries in that order: the round's first records are those of the
\* X-type auxiliaries in their order, then those of the Z-type ones.
C27_AuxiliaryOrder ==
    [][ (AnyRoundStep("plain") \/ AnyRoundStep("gadget")) =>
        LET added == Appended
            nX == Len(code.x_auxiliary_qubits)
            nZ == Len(code.z_auxiliary_qubits)
            before == MeasRecord(circuit, Len(circuit))
            after == MeasRecord(circuit', Len(circuit'))
            round == SubSeq(after, Len(before) + 1, Len(after))
        IN  /\ code.auxiliary_qubits
                  = code.x_auxiliary_qubits \o code.z_auxiliary_qubits
            /\ Cardinality(Named(added, "M")) = 1
            /\ SubSeq(after, 1, Len(before)) = before
            /\ Len(round) = nX + nZ + Len(code.flag_qubits)
            /\ SubSeq(round, 1, nX) = Mapped(code, code.x_auxiliary_qubits)
            /\ SubSeq(round, nX + 1, nX + nZ) = Mapped(code, code.z_auxiliary_qubits) ]_vars

\* C27 witness: a repeat round of a plain code with several auxiliaries of
\* each type has been measured
C27_Witness ==
    /\ pc = "syndrome_extraction"
    /\ call.op = "syndrome_extraction"
    /\ code.variant = "plain"
    /\ round_r >= 2
    /\ Len(code.x_auxiliary_qubits) >= 2
    /\ Len(code.z_auxiliary_qubits) >= 2
    /\ raised = "none"

\* the qubit a call of _neighbouring_data_qubits asked about
Asked == call.qubits[1]

\* C28: _neighbouring_data_qubits raises an error for every qubit that is not
\* an auxiliary of the code: a data qubit, a flag qubit, a coordinate outside
\* the layout, in the plain and in the gadget variant.
C28_NonAuxiliaryRejected ==
    (call.op = "_neighbouring_data_qubits"
     /\ (\/ Asked \in Range(code.data_qubits)
         \/ Asked \in Range(code.flag_qubits)
         \/ Asked \notin Range(code.qubit_coords)
         \/ Asked \notin Range(code.auxiliary_qubits)))
        => raised = "ValueError"

\* C28 witness: a flag qubit of a gadget code was asked about and refused
C28_Witness ==
    /\ call.op = "_neighbouring_data_qubits"
    /\ code.variant = "gadget"
    /\ Asked \in Range(code.flag_qubits)
    /\ raised = "ValueError"
    /\ Len(code.auxiliary_qubits) >= 2

(***************************************************************************)
(* The noise profiles.                                                     *)
(***************************************************************************)
\* the parameter a profile was constructed with
GivenP == call.qubits[1]

ProfileAttributes ==
    {"single_qubit_gate_noise", "two_qubit_gate_noise", "measurement_flip_prob",
     "reset_noise", "idle_noise"}

\* C29: DepolarizingNoise(p) and CircuitLevelNoise(p) raise an error with no
\* attribute set when p < 0 or p > 1, and are constructed, every noise
\* attribute set, for every p from 0 to 1, the two ends included.
C29_NoiseParameterChecked ==
    pc = "constructed" =>
        /\ (GivenP < 0 \/ GivenP > PerMille)
              => (raised = "ValueError" /\ DOMAIN noise_profile = {})
        /\ (0 <= GivenP /\ GivenP <= PerMille)
              => (raised = "none" /\ ProfileAttributes \subseteq DOMAIN noise_profile)

\* C29 witness: CircuitLevelNoise was refused for a parameter just above 1
C29_Witness ==
    /\ pc = "constructed"
    /\ call.op = "CircuitLevelNoise"
    /\ GivenP = PerMille + 1
    /\ raised = "ValueError"
    /\ DOMAIN noise_profile = {}

\* C30 (as stated): reset_noise of DepolarizingNoise(p) is the descriptor
\* Depolarize1(p), and that of CircuitLevelNoise(p) is Depolarize1(p / 10).
C30_ResetNoiseIsDepolarize1 ==
    (pc = "constructed" /\ raised = "none") =>
        attributes(noise_profile).reset_noise
            = PyTuple(Depolarize1(IF call.op = "DepolarizingNoise" THEN GivenP
                                  ELSE GivenP \div 10))

\* C31: for every valid p, the two-qubit gate noise of CircuitLevelNoise(p)
\* is that of DepolarizingNoise(p), while its single-qubit gate noise,
\* measurement flip probability, reset noise and idle noise are those that p/10
\* gives.
C31_OnlyTwoQubitNoiseUnscaled ==
    (pc = "constructed" /\ call.op = "CircuitLevelNoise" /\ raised = "none") =>
        LET full == DepolarizingNoise(GivenP)
            tenth == DepolarizingNoise(GivenP \div 10)
        IN  /\ noise_profile.two_qubit_gate_noise = full.two_qubit_gate_noise
            /\ noise_profile.single_qubit_gate_noise = tenth.single_qubit_gate_noise
            /\ noise_profile.measurement_flip_prob = tenth.measurement_flip_prob
            /\ noise_profile.reset_noise = tenth.reset_noise
            /\ noise_profile.idle_noise = tenth.idle_noise

\* C31 witness: CircuitLevelNoise(0.1), whose two-qubit noise has strength
\* 0.1 and whose other noise has strength 0.01
C31_Witness ==
    /\ pc = "constructed"
    /\ call.op = "CircuitLevelNoise"
    /\ raised = "none"
    /\ GivenP = 100
    /\ noise_profile.two_qubit_gate_noise = <<"DEPOLARIZE2", 100>>
    /\ noise_profile.idle_noise = <<"DEPOLARIZE1", 10>>

(***************************************************************************)
(* The life of a Circuit: set up, used, cleared, set up again.             *)
(***************************************************************************)
\* a call of the life of a Circuit has been made
LifeStep == pc = "builder" /\ nops' = nops + 1

C33_IdleTrackingIsRegisteredSet ==
    pc = "builder" =>
        /\ DictKeys(idling_qubits) = 0..(valid_qubits - 1)
        /\ \A i, j \in 1..Len(idling_qubits) :
              idling_qubits[i][1] = idling_qubits[j][1] => i = j

\* C34: add_qubits called right after clear, for n qubits and whatever was
\* registered or touched before, leaves a log of exactly n coordinate
\* declarations, the i-th declaring index i at the i-th coordinate supplied (at
\* i itself when none is supplied), and registers the n qubits, each with its
\* touched flag false.
C34_ClearThenAddQubits ==
    [][ (LifeStep /\ call.op = "clear" /\ call'.op = "add_qubits") =>
        LET coords == call'.qubits
            n == Len(coords)
        IN  /\ raised' = "none"
            /\ Len(circuit') = n
            /\ \A i \in 1..n :
                  circuit'[i] = Instr("QUBIT_COORDS", <<i - 1>>, coords[i])
            /\ valid_qubits' = n
            /\ \A q \in 0..(n - 1) :
                  /\ q \in DictKeys(idling_qubits')
                  /\ DictGet(idling_qubits', q) = 0 ]_vars

\* C34 witness: two qubits were registered with coordinates after a clear
\* that had emptied a log holding an operation (the index it acted on still
\* has its entry in the idle tracking)
C34_Witness ==
    /\ pc = "builder"
    /\ call.op = "add_qubits"
    /\ nops = 3
    /\ call.given
    /\ valid_qubits = 2
    /\ circuit = << Instr("QUBIT_COORDS", <<0>>, <<1, 1>>),
                    Instr("QUBIT_COORDS", <<1>>, <<2, 1>>) >>
    /\ Len(idling_qubits) = 3
    /\ \E i \in 1..3 : idling_qubits[i][2] = 1
    /\ DictGet(idling_qubits, 0) = 0
    /\ DictGet(idling_qubits, 1) = 0


(***************************************************************************)
(* What a noiseless log measures: the parity of a set of records is        *)
(* deterministic exactly when the product of the Z operators measured at   *)
(* those records, carried back through the log to the start, never meets a *)
(* measurement or reset it anticommutes with and ends as a product of Z    *)
(* operators on the all-zero start.  A product of Pauli operators is kept  *)
(* (up to sign) as the set of qubits it acts on with X or Y and the set it *)
(* acts on with Z or Y.                                                    *)
(***************************************************************************)
SymDiff(S, T) == (S \ T) \cup (T \ S)

RECURSIVE BackCX(_, _, _)
\* the operator before the first j pairs of a CX instruction, given the
\* operator after them: X spreads from control to target, Z from target to
\* control
BackCX(targets, j, P) ==
    IF j = 0 THEN P
    ELSE LET ctl == targets[2 * j - 1]
             tgt == targets[2 * j]
             Q == [ P EXCEPT !.X = IF ctl \in P.X THEN SymDiff(P.X, {tgt}) ELSE P.X,
                             !.Z = IF tgt \in P.Z THEN SymDiff(P.Z, {ctl}) ELSE P.Z ]
         IN  BackCX(targets, j - 1, Q)

\* the operator before instruction i of the log, given the operator after
\* it; chosen is the set of records whose parity is asked for
BackThrough(log, i, chosen, P) ==
    LET ins == log[i]
        T == Range(ins.targets)
        first == RecordedBefore(log, i)
    IN  CASE ins.name = "H" ->
                [ P EXCEPT !.X = (P.X \ T) \cup (P.Z \cap T),
                           !.Z = (P.Z \ T) \cup (P.X \cap T) ]
          [] ins.name = "CX" -> BackCX(ins.targets, Len(ins.targets) \div 2, P)
          [] ins.name = "M" ->
                [ P EXCEPT !.random = P.random \/ (P.X \cap T # {}),
                           !.Z = SymDiff(P.Z, {ins.targets[j] :
                                    j \in {k \in 1..Len(ins.targets) : first + k \in chosen}}) ]
          [] ins.name = "R" ->
                [ P EXCEPT !.random = P.random \/ (P.X \cap T # {}),
                           !.Z = P.Z \ T ]
          [] OTHER -> P

RECURSIVE BackOver(_, _, _, _, _)
\* the operator before instruction lo of the log, given the operator after
\* instruction hi: the later half of the instructions first, then the earlier
BackOver(log, lo, hi, chosen, P) ==
    IF lo > hi THEN P
    ELSE IF lo = hi THEN BackThrough(log, lo, chosen, P)
    ELSE LET mid == (lo + hi) \div 2
             Q == BackOver(log, mid + 1, hi, chosen, P)
         IN  IF Q.random THEN Q ELSE BackOver(log, lo, mid, chosen, Q)

\* the parity of the chosen records of a noiseless log is deterministic
Deterministic(log, chosen) ==
    LET P == BackOver(log, 1, Len(log), chosen, [X |-> {}, Z |-> {}, random |-> FALSE])
    IN  ~P.random /\ P.X = {}

\* every noise instruction and every measurement of the log has probability 0
Noiseless(log) ==
    \A i \in 1..Len(log) :
        log[i].name \in NoiseChannelNames \cup {"M"} => log[i].arg = 0

\* C35: in the finished logical-Z memory of 3 rounds of the plain code of
\* distance 3, built with noise 0 everywhere, the parity of the records of
\* every detector and of the logical observable is deterministic: sampling
\* yields no detection event and no observable flip.
C35_NoiselessMemoryDeterministic ==
    ( /\ pc = "done" /\ memory = "z" /\ rounds = 3
      /\ code.variant = "plain"
      /\ code.x_distance = 3 /\ code.z_distance = 3 )
    => /\ Noiseless(circuit)
       /\ \A i \in RecordInstructions(circuit) :
             Deterministic(circuit,
                 ResolvedRecords(RecordedBefore(circuit, i), circuit[i]))

\* C35 witness: the finished experiment, its log holding the 8 detectors of
\* each of the three rounds' comparisons that the code declares, a closing
\* detector over four data records and the observable
C35_Witness ==
    /\ pc = "done" /\ memory = "z" /\ rounds = 3
    /\ code.variant = "plain"
    /\ code.x_distance = 3 /\ code.z_distance = 3
    /\ raised = "none"
    /\ circuit[Len(circuit)].name = "OBSERVABLE_INCLUDE"
    /\ Cardinality(Named(circuit, "DETECTOR")) = 4 + 8 + 8 + 4
    /\ Cardinality(Named(circuit, "M")) = 4
    /\ \E i \in Named(circuit, "DETECTOR") : Len(circuit[i].targets) = 5


\* C36: in every CX instruction a syndrome round emits with the default
\* schedules, plain or gadget, data-coupling layer or auxiliary -> flag layer,
\* no qubit index appears twice.
C36_NoQubitTwiceInLayer ==
    [][ (AnyRoundStep("plain") \/ AnyRoundStep("gadget")) =>
        LET cx == AppendedCX
        IN  \A k \in 1..Len(cx) :
              Cardinality(Range(cx[k].targets)) = Len(cx[k].targets) ]_vars

\* C36 witness: a repeat round of the gadget code of distance 3 has emitted an
\* auxiliary -> flag layer over the 8 pairs and a data-coupling layer in which
\* a flag and an auxiliary take part
C36_Witness ==
    /\ call.op = "syndrome_extraction"
    /\ code.variant = "gadget"
    /\ code.x_distance = 3 /\ code.z_distance = 3
    /\ round_r = 2
    /\ raised = "none"
    /\ \E i \in Named(circuit, "CX") : Len(circuit[i].targets) = 16
    /\ \E i \in Named(circuit, "CX") :
          /\ Range(circuit[i].targets) \cap Range(Mapped(code, code.flag_qubits)) # {}
          /\ Range(circuit[i].targets) \cap Range(Mapped(code, code.data_qubits)) # {}
    /\ \E i \in Named(circuit, "CX") :
          /\ Range(circuit[i].targets) \cap Range(Mapped(code, code.auxiliary_qubits)) # {}
          /\ Range(circuit[i].targets) \cap Range(Mapped(code, code.data_qubits)) # {}


\* the gates of the appended CX instructions that involve a data qubit, each
\* as <<instruction, pair, the two qubit indices>>
DataCouplings ==
    LET cx == AppendedCX
        data == Range(Mapped(code, code.data_qubits))
        gates == UNION {{<<k, j, {cx[k].targets[2 * j - 1], cx[k].targets[2 * j]}>> :
                            j \in 1..(Len(cx[k].targets) \div 2)} : k \in 1..Len(cx)}
    IN  {g \in gates : g[3] \cap data # {}}

\* the indices standing for an auxiliary: its own and, in the gadget variant,
\* its paired flag's
StandIns(aux) ==
    {code.qubit_map[aux]} \cup
    (IF code.variant = "gadget" THEN {code.qubit_map[QubitAdd(aux, <<1, 1>>)]} ELSE {})

\* C37: within one syndrome round with the default schedules every pair of
\* an auxiliary and one of its neighbouring data qubits is coupled by exactly
\* one CX gate (in the gadget: one gate with the auxiliary or with its paired
\* flag), and every gate that involves a data qubit couples it to an
\* auxiliary, or the flag of an auxiliary, that it neighbours.
C37_EveryNeighbourCoupledOnce ==
    [][ (AnyRoundStep("plain") \/ AnyRoundStep("gadget")) =>
        LET aux == Range(code.auxiliary_qubits)
            near(a) == Range(_neighbouring_data_qubits(code, a))
            gates == DataCouplings
            Couples(g, a, d) ==
                \E s \in StandIns(a) : g[3] = {s, code.qubit_map[d]}
        IN  /\ \A a \in aux : \A d \in near(a) :
                  Cardinality({g \in gates : Couples(g, a, d)}) = 1
            /\ \A g \in gates :
                  \E a \in aux : \E d \in near(a) : Couples(g, a, d) ]_vars

\* C37 witness: the gadget code of distances 2 and 3 has run its encode round,
\* with an auxiliary of four neighbours and one of two
C37_Witness ==
    /\ call.op = "encode_logical_zero"
    /\ code.variant = "gadget"
    /\ code.x_distance = 2 /\ code.z_distance = 3
    /\ raised = "none"
    /\ \E a \in Range(code.auxiliary_qubits) :
          Len(_neighbouring_data_qubits(code, a)) = 4
    /\ \E a \in Range(code.auxiliary_qubits) :
          Len(_neighbouring_data_qubits(code, a)) = 2
    /\ Cardinality(Named(circuit, "CX")) = 7


\* the syndrome rounds a memory experiment of `rounds` rounds runs
RoundsRun == IF rounds >= 1 THEN rounds ELSE 1

\* the qubits one syndrome round measures, in order
RoundMeasured ==
    Mapped(code, code.auxiliary_qubits)
        \o (IF code.variant = "gadget" THEN Mapped(code, code.flag_qubits) ELSE <<>>)

\* C38: logical_z_memory(rounds=R) and logical_x_memory(rounds=R) run R
\* syndrome rounds for R >= 1 and one round for R <= 0, then one data readout:
\* the record holds R (resp. 1) blocks of the auxiliaries' (gadget:
\* auxiliaries' then flags') measurements followed by the data qubits',
\* R * |auxiliary_qubits| + |data_qubits| measurements in the plain code and
\* R * 2 * |auxiliary_qubits| + |data_qubits| in the gadget variant.
C38_RoundsAndMeasurements ==
    pc = "done" =>
        LET rec == MeasRecord(circuit, Len(circuit))
            nA == Len(code.auxiliary_qubits)
            nD == Len(code.data_qubits)
            per == IF code.variant = "gadget" THEN 2 * nA ELSE nA
        IN  /\ round_r = RoundsRun
            /\ Len(rec) = RoundsRun * per + nD
            /\ \A r \in 1..RoundsRun :
                  SubSeq(rec, (r - 1) * per + 1, r * per) = RoundMeasured
            /\ SubSeq(rec, RoundsRun * per + 1, Len(rec)) = Mapped(code, code.data_qubits)

\* C38 witness: a finished logical-X memory of two rounds of the gadget code
\* of distances 3 and 2, its record holding 2 * 2 * 5 + 6 measurements
C38_Witness ==
    /\ pc = "done"
    /\ memory = "x"
    /\ rounds = 2
    /\ code.variant = "gadget"
    /\ code.x_distance = 3 /\ code.z_distance = 2
    /\ raised = "none"
    /\ Len(code.auxiliary_qubits) = 5
    /\ Len(MeasRecord(circuit, Len(circuit))) = 26

\* C38 witness for rounds = 0: the encode round alone, then the readout
C38_ZeroRounds ==
    /\ pc = "done"
    /\ rounds = 0
    /\ code.variant = "plain"
    /\ code.x_distance = 3 /\ code.z_distance = 3
    /\ Len(MeasRecord(circuit, Len(circuit))) = 8 + 9


\* the Circuit of a freshly constructed instance of the configuration
FreshCircuit == add_qubits(NewCircuit(noise_profile), code.qubit_coords)

\* a step that is a call of clean_circuit
CleanStep == call'.op = "clean_circuit" /\ nops' = nops + 1

\* C39: after clean_circuit, whatever was built on the instance before, the
\* log is exactly the qubit-coordinate declarations and every touched flag is
\* false, and a memory experiment then built to its end has the instruction
\* log of the same experiment built on a freshly constructed instance of the
\* same configuration.
C39_CleanCircuitIsFresh ==
    [][ /\ CleanStep =>
            /\ Len(circuit') = Len(code.qubit_coords)
            /\ \A i \in 1..Len(circuit') :
                  circuit'[i] = Instr("QUBIT_COORDS", <<i - 1>>, code.qubit_coords[i])
            /\ \A i \in 1..Len(idling_qubits') : idling_qubits'[i][2] = 0
            /\ DictKeys(idling_qubits') = 0..(Len(code.qubit_coords) - 1)
        /\ (nops > 0 /\ pc' = "done") =>
            circuit' = logical_memory(FreshCircuit, code, memory, rounds).circuit ]_vars

\* C39 witness: a gadget code of distance 2 that was cleaned once has a
\* logical-Z memory of two rounds built to its end, the flags of the data
\* qubits read out still set
C39_Witness ==
    /\ pc = "done"
    /\ nops = 1
    /\ memory = "z" /\ rounds = 2
    /\ code.variant = "gadget"
    /\ code.x_distance = 2 /\ code.z_distance = 2
    /\ raised = "none"
    /\ circuit[Len(circuit)].name = "OBSERVABLE_INCLUDE"
    /\ \E i \in 1..Len(idling_qubits) : idling_qubits[i][2] = 1


\* C40: for every auxiliary qubit of a layout the neighbour function returns,
\* each once, exactly the data qubits at the four diagonal offsets (+-1, +-1),
\* and they are 2 (boundary stabiliser) or 4 (bulk stabiliser).
C40_NeighboursAreDiagonalData ==
    ( /\ call.op = "_neighbouring_data_qubits"
      /\ Asked \in Range(code.auxiliary_qubits) )
    => LET returned == call.returned
           data == Range(code.data_qubits)
       IN  /\ raised = "none"
           /\ Range(returned) \subseteq data
           /\ Range(returned)
                = {d \in data : /\ d[1] - Asked[1] \in {-2, 2}
                                /\ d[2] - Asked[2] \in {-2, 2}}
           /\ Cardinality(Range(returned)) = Len(returned)
           /\ Len(returned) \in {2, 4}

\* C40 witness: a Z-type auxiliary on the boundary of the plain code of
\* distances 2 and 3 was asked about and has two neighbours, in a layout that
\* has a bulk auxiliary of four as well
C40_Witness ==
    /\ call.op = "_neighbouring_data_qubits"
    /\ code.variant = "plain"
    /\ code.x_distance = 2 /\ code.z_distance = 3
    /\ Asked \in Range(code.z_auxiliary_qubits)
    /\ raised = "none"
    /\ Len(call.returned) = 2
    /\ \E a \in Range(code.auxiliary_qubits) :
          Cardinality(PlaquetteData(code, a)) = 4

=============================================================================
